---- MODULE Spec2Model ----
(***************************************************************************)
(* A model of the khmer_pdf toolbox: the page-by-page rasterize/reassemble *)
(* driver compressPDF (lib/compress-helper) and the route components that  *)
(* drive batches of documents (compress, PDF to Word, rotate, merge,       *)
(* split).                                                                 *)
(*                                                                         *)
(* Conventions.                                                            *)
(*  - One route component is mounted at a time: `tool` names it.           *)
(*    tool = "driver" is a direct caller of the exported compressPDF, with *)
(*    an arbitrary onProgress callback.                                    *)
(*  - Real numbers of the preset table are kept as hundredths: scale 0.5   *)
(*    is 50, imageQuality 0.85 is 85.                                      *)
(*  - A File is the user's byte blob: `valid` says whether the document    *)
(*    loader can open the bytes, `numPages` is its page count.             *)
(*  - Every `await` of the source is a step boundary; what the collaborator*)
(*    libraries answer (a page that cannot be rendered, a save that fails) *)
(*    is chosen by the environment at that step.                           *)
(*  - alert() is modal: while a message is shown nothing else runs.        *)
(*  - A PDFFile's id (name + Date.now() + Math.random()) is unique in its  *)
(*    list.  The model names a listed file by its position, which is what  *)
(*    `f.id === pdfFile.id` selects; downloads, invoked and settled name   *)
(*    the documents of the running handler by their position in the list   *)
(*    the handler captured.                                                *)
(***************************************************************************)
EXTENDS Integers, Sequences, FiniteSets, TLC

\* Largest page count of an input document.
MaxPages == 3
\* Largest number of files in a route's file list.
MaxFiles == 2

VARIABLES
  tool,                 \* the mounted route component
  pdfFiles,             \* useState<PDFFile[]>: the route's file list
  isProcessing,         \* useState(false)
  compressionMode,      \* useState<CompressionMode>('normal')
  compressionSettings,  \* the module-level preset table of compress-helper
  alertMsg,             \* the modal alert() being shown, or "none"
  downloads,            \* the downloads triggered (link.click()) by the running handler
  pc,                   \* position of the route's running handler
  i,                    \* loop index of the running batch handler (1-based)
  closure,              \* state captured by the running handler's closure
  invoked,              \* the documents the per-document worker was called for, in call order
  settled,              \* document -> how its per-document worker settled
  call,                 \* the frame of the running per-document worker
  pdfFile,              \* split route: useState<PDFFile | null>
  splitMode,            \* split route: useState<SplitMode>('all')
  selectedPages,        \* split route: useState<Set<number>>, in insertion order
  pageRanges,           \* split route: useState<PageRange[]>
  file,                 \* OCR route: useState<File | null>
  selectedLanguages,    \* OCR route: useState<Language[]>(['eng'])
  progress,             \* OCR route: useState(0)
  extractedText,        \* OCR route: useState('')
  error,                \* OCR route: useState<string | null>
  currentPage,          \* OCR route: useState(0)
  totalPages,           \* OCR route: useState(0)
  draggedPageId,        \* organize route: useState<string | null>
  dragOverPageId        \* organize route: useState<string | null>

splitVars == <<pdfFile, splitMode, selectedPages, pageRanges>>

ocrVars == <<file, selectedLanguages, progress, extractedText, error,
             currentPage, totalPages>>

organizeVars == <<draggedPageId, dragOverPageId>>

\* What no action of the compress, PDF-to-Word, rotate, merge and split
\* routes writes: the mounted route and the state of the other routes.
routeVars == <<tool, ocrVars, organizeVars>>

vars == <<routeVars, pdfFiles, isProcessing, compressionMode, compressionSettings,
          alertMsg, downloads, pc, i, closure, invoked, settled, call, splitVars>>

----------------------------------------------------------------------------
(* Input domains *)

CompressionMode == {"extreme", "normal", "less"}

InvalidFile == [valid |-> FALSE, numPages |-> 0]

\* The files a direct caller hands to compressPDF.
Files == {InvalidFile} \cup {[valid |-> TRUE, numPages |-> n] : n \in 1..MaxPages}

\* The files a user adds to a route's list: unreadable, one page, two pages.
RoutePageCounts == {1, 2}

RouteFiles == {InvalidFile} \cup {[valid |-> TRUE, numPages |-> n] : n \in RoutePageCounts}

----------------------------------------------------------------------------
(* compress-helper: the preset table *)

\* Variant of the table: `less` keeps the page at full scale and shares the
\* quality of `normal`.
CompressionSettingsTable_FlatLess ==
  [extreme |-> [imageQuality |-> 30, scale |-> 50, format |-> "jpeg"],
   normal  |-> [imageQuality |-> 60, scale |-> 70, format |-> "jpeg"],
   less    |-> [imageQuality |-> 60, scale |-> 100, format |-> "jpeg"]]

CompressionSettingsTable ==
  [extreme |-> [imageQuality |-> 30, scale |-> 50, format |-> "jpeg"],
   normal  |-> [imageQuality |-> 60, scale |-> 70, format |-> "jpeg"],
   less    |-> [imageQuality |-> 85, scale |-> 90, format |-> "jpeg"]]

\* compressionOptions of the compress route: the order of the presets from
\* the strongest compression ("Maximum compression") to the lightest.
CompressionRank == [extreme |-> 3, normal |-> 2, less |-> 1]

\* compressionOptions[].imageQuality, the route's copy of the quality column.
CompressionOptionQuality == [extreme |-> 30, normal |-> 60, less |-> 85]

----------------------------------------------------------------------------
(* compress-helper: compressPDF *)

NoBlob == [format |-> "none", quality |-> 0]

IdleCall ==
  [pc |-> "idle", pdfFile |-> InvalidFile, mode |-> "normal",
   settings |-> CompressionSettingsTable["normal"], throwsAt |-> {},
   totalPages |-> 0, pageNum |-> 0, step |-> "none",
   viewport |-> 0, blob |-> NoBlob,
   newPdfDoc |-> <<>>, progress |-> <<>>, errors |-> {}, loads |-> 0]

\* Entry of compressPDF up to its first await: `settings` is read once from
\* the table.  throwsAt is the behaviour of the caller's onProgress: the page
\* indexes at which it throws.
CompressPDFCall(f, mode, throwsAt) ==
  [IdleCall EXCEPT !.pc = "load", !.pdfFile = f, !.mode = mode,
                   !.settings = compressionSettings[mode],
                   !.throwsAt = throwsAt]

\* for (let pageNum = 1; pageNum <= totalPages; pageNum++): the loop's
\* increment and test, after the try block or its catch.
NextPage(c) ==
  IF c.pageNum + 1 <= c.totalPages
    THEN [c EXCEPT !.pageNum = c.pageNum + 1, !.step = "getPage",
                   !.viewport = 0, !.blob = NoBlob]
    ELSE [c EXCEPT !.pc = "save", !.pageNum = c.pageNum + 1, !.step = "none",
                   !.viewport = 0, !.blob = NoBlob]

\* Variant of the catch: a blank page is added in place of the failed one.
CatchPage_Pad(c, origin) ==
  NextPage([c EXCEPT !.errors = @ \cup {[page |-> c.pageNum, origin |-> origin]},
                     !.newPdfDoc = Append(@, [src |-> c.pageNum, scale |-> 0,
                                              quality |-> 0, format |-> "none"])])

\* catch (error) { console.error(`Error processing page ${pageNum}:`) }:
\* the page is logged and the loop continues.  origin is "page" for a throw
\* of getPage/render/encode/embed and "onProgress" for a throw of the callback.
CatchPage_Rethrow(c, origin) ==
  [c EXCEPT !.pc = "rejected", !.step = "none",
            !.errors = @ \cup {[page |-> c.pageNum, origin |-> origin]}]

CatchPage(c, origin) ==
  NextPage([c EXCEPT !.errors = @ \cup {[page |-> c.pageNum, origin |-> origin]}])

\* Variant of the load: bytes that do not load are treated as a document
\* of zero pages, which goes on to the save.
LoadDocument_EmptyOnFailure(c) ==
  IF c.pdfFile.valid
    THEN NextPage([c EXCEPT !.pc = "page", !.loads = @ + 1,
                            !.totalPages = c.pdfFile.numPages, !.pageNum = 0])
    ELSE NextPage([c EXCEPT !.pc = "page", !.loads = @ + 1,
                            !.totalPages = 0, !.pageNum = 0])

\* getDocument(...).promise, PDFDocument.create(), totalPages = numPages.
LoadDocument(c) ==
  IF c.pdfFile.valid
    THEN NextPage([c EXCEPT !.pc = "page", !.loads = @ + 1,
                            !.totalPages = c.pdfFile.numPages, !.pageNum = 0])
    ELSE [c EXCEPT !.pc = "rejected", !.loads = @ + 1]

\* renderAndCompressPage: getViewport({scale: settings.scale}) and page.render.
RenderPage(c) ==
  [c EXCEPT !.viewport = c.settings.scale, !.step = "encode"]

\* renderAndCompressPage: canvas.toBlob(cb, mime(settings.format), settings.imageQuality).
EncodePage(c) ==
  [c EXCEPT !.blob = [format |-> c.settings.format,
                      quality |-> c.settings.imageQuality],
            !.step = "embed"]

\* newPdfDoc.addPage([width, height]); newPage.drawImage(image, ...).
AppendPage(c) ==
  [c EXCEPT !.newPdfDoc = Append(@, [src |-> c.pageNum, scale |-> c.viewport,
                                     quality |-> c.blob.quality,
                                     format |-> c.blob.format])]

\* Variant of the report: the callback is given the number of pages written
\* so far instead of the index of the page.
ReportProgress_Count(c) ==
  LET d == [c EXCEPT !.progress = Append(@, <<Len(c.newPdfDoc), c.totalPages>>)]
  IN  IF c.pageNum \in c.throwsAt THEN CatchPage(d, "onProgress") ELSE NextPage(d)

\* Variant of the report: the callback is called outside the try block, so a
\* throw of the callback rejects compressPDF.
ReportProgress_Unguarded(c) ==
  LET d == [c EXCEPT !.progress = Append(@, <<c.pageNum, c.totalPages>>)]
  IN  IF c.pageNum \in c.throwsAt THEN [d EXCEPT !.pc = "rejected"] ELSE NextPage(d)

\* onProgress?.(pageNum, totalPages), inside the try block: the call is
\* logged, and a throw of the callback lands in the page's catch.
ReportProgress(c) ==
  LET d == [c EXCEPT !.progress = Append(@, <<c.pageNum, c.totalPages>>)]
  IN  IF c.pageNum \in c.throwsAt THEN CatchPage(d, "onProgress") ELSE NextPage(d)

\* Variant of the save: a last report (totalPages, totalPages) follows it.
SaveDocument_Report(c, ok) ==
  [c EXCEPT !.pc = IF ok THEN "resolved" ELSE "rejected",
            !.progress = IF ok THEN Append(@, <<c.totalPages, c.totalPages>>) ELSE @]

\* const compressedBytes = await newPdfDoc.save({...}); return compressedBytes
SaveDocument(c, ok) ==
  [c EXCEPT !.pc = IF ok THEN "resolved" ELSE "rejected"]

\* Math.floor((current / total) * 100) of the compress route's callback.
ProgressPercent(current, total) == (current * 100) \div total

----------------------------------------------------------------------------
(* State of the route components *)

NoProgress == 0 - 1

NoClosure == [pdfFiles |-> <<>>, compressionMode |-> "normal"]

\* addFiles of the compress and PDF-to-Word routes: status 'pending', no progress.
NewPdfFile(f) ==
  [file |-> f, status |-> "pending", progress |-> NoProgress]

\* prev.map((f) => (f.id === pdfFile.id ? { ...f, status } : f)), for the
\* file listed at position k.
SetStatus(list, k, status) ==
  [list EXCEPT ![k] = [@ EXCEPT !.status = status]]

\* prev.map((f) => (f.id === pdfFile.id ? { ...f, progress } : f))
SetProgress(list, k, value) ==
  [list EXCEPT ![k] = [@ EXCEPT !.progress = value]]

\* prev.filter((file) => file.id !== id), for the file listed at position k.
RemoveAt(list, k) ==
  [j \in 1..(Len(list) - 1) |-> IF j < k THEN list[j] ELSE list[j + 1]]

Running == alertMsg = "none"

\* The document the running batch handler is at: pdfFiles[i] of its closure.
Current == closure.pdfFiles[i]

----------------------------------------------------------------------------
(* compressPDF, step by step *)

\* await pdfFile.arrayBuffer(); await loadingTask.promise; PDFDocument.create()
CompressPDF_Load ==
  /\ tool \in {"driver", "compress"} /\ Running
  /\ call.pc = "load"
  /\ call' = LoadDocument(call)
  /\ settled' = IF tool = "compress" /\ ~call.pdfFile.valid
                  THEN (i :> "rejected") @@ settled ELSE settled
  /\ UNCHANGED <<splitVars, routeVars, pdfFiles, isProcessing, compressionMode,
                 compressionSettings, alertMsg, downloads, pc, i, closure, invoked>>

\* await pdfDocument.getPage(pageNum)
CompressPDF_GetPage ==
  /\ tool \in {"driver", "compress"} /\ Running
  /\ call.pc = "page" /\ call.step = "getPage"
  /\ \E ok \in BOOLEAN :
       call' = IF ok THEN [call EXCEPT !.step = "render"] ELSE CatchPage(call, "page")
  /\ UNCHANGED <<splitVars, routeVars, pdfFiles, isProcessing, compressionMode, compressionSettings,
                 alertMsg, downloads, pc, i, closure, invoked, settled>>

\* renderAndCompressPage up to `await page.render(...).promise`
CompressPDF_Render ==
  /\ tool \in {"driver", "compress"} /\ Running
  /\ call.pc = "page" /\ call.step = "render"
  /\ \E ok \in BOOLEAN :
       call' = IF ok THEN RenderPage(call) ELSE CatchPage(call, "page")
  /\ UNCHANGED <<splitVars, routeVars, pdfFiles, isProcessing, compressionMode, compressionSettings,
                 alertMsg, downloads, pc, i, closure, invoked, settled>>

\* canvas.toBlob(...) and await blob.arrayBuffer()
CompressPDF_Encode ==
  /\ tool \in {"driver", "compress"} /\ Running
  /\ call.pc = "page" /\ call.step = "encode"
  /\ \E ok \in BOOLEAN :
       call' = IF ok THEN EncodePage(call) ELSE CatchPage(call, "page")
  /\ UNCHANGED <<splitVars, routeVars, pdfFiles, isProcessing, compressionMode, compressionSettings,
                 alertMsg, downloads, pc, i, closure, invoked, settled>>

\* await newPdfDoc.embedJpg(imageBytes), addPage, drawImage, onProgress.
\* The compress route's callback stores the percentage on the file.
CompressPDF_Embed ==
  /\ tool \in {"driver", "compress"} /\ Running
  /\ call.pc = "page" /\ call.step = "embed"
  /\ \E ok \in BOOLEAN :
       IF ok
         THEN /\ call' = ReportProgress(AppendPage(call))
              /\ pdfFiles' =
                   IF tool = "compress"
                     THEN SetProgress(pdfFiles, i,
                                      ProgressPercent(call.pageNum, call.totalPages))
                     ELSE pdfFiles
         ELSE /\ call' = CatchPage(call, "page")
              /\ pdfFiles' = pdfFiles
  /\ UNCHANGED <<splitVars, routeVars, isProcessing, compressionMode, compressionSettings,
                 alertMsg, downloads, pc, i, closure, invoked, settled>>

\* await newPdfDoc.save({...}); return compressedBytes
CompressPDF_Save ==
  /\ tool \in {"driver", "compress"} /\ Running
  /\ call.pc = "save"
  /\ \E ok \in BOOLEAN :
       /\ call' = SaveDocument(call, ok)
       /\ settled' = IF tool = "compress"
                       THEN (i :> (IF ok THEN "resolved" ELSE "rejected")) @@ settled
                       ELSE settled
  /\ UNCHANGED <<splitVars, routeVars, pdfFiles, isProcessing, compressionMode,
                 compressionSettings, alertMsg, downloads, pc, i, closure, invoked>>

CompressPDF ==
  \/ CompressPDF_Load
  \/ CompressPDF_GetPage
  \/ CompressPDF_Render
  \/ CompressPDF_Encode
  \/ CompressPDF_Embed
  \/ CompressPDF_Save

----------------------------------------------------------------------------
(* A direct caller of compressPDF *)

\* compressPDF(pdfFile, mode, onProgress) with any file, preset and callback.
Driver_Call ==
  /\ tool = "driver"
  /\ call.pc = "idle"
  /\ \E f \in Files, m \in CompressionMode :
       \E t \in SUBSET (1..f.numPages) :
         call' = CompressPDFCall(f, m, t)
  /\ UNCHANGED <<splitVars, routeVars, pdfFiles, isProcessing, compressionMode, compressionSettings,
                 alertMsg, downloads, pc, i, closure, invoked, settled>>

\* The caller takes the settled promise; the frame is gone.
Driver_Return ==
  /\ tool = "driver"
  /\ call.pc \in {"resolved", "rejected"}
  /\ call' = IdleCall
  /\ UNCHANGED <<splitVars, routeVars, pdfFiles, isProcessing, compressionMode, compressionSettings,
                 alertMsg, downloads, pc, i, closure, invoked, settled>>

----------------------------------------------------------------------------
(* The compress route (routes/optimize/compress-pdf.tsx) *)

\* The file input and the drop zone are disabled while isProcessing.
\* A drop of several files is a sequence of these steps.
Compress_AddFiles ==
  /\ tool = "compress" /\ Running /\ ~isProcessing
  /\ Len(pdfFiles) < MaxFiles
  /\ \E f \in RouteFiles : pdfFiles' = Append(pdfFiles, NewPdfFile(f))
  /\ UNCHANGED <<splitVars, routeVars, isProcessing, compressionMode, compressionSettings, alertMsg,
                 downloads, pc, i, closure, invoked, settled, call>>

\* removeFile(id); its button is disabled while isProcessing.
Compress_RemoveFile ==
  /\ tool = "compress" /\ Running /\ ~isProcessing
  /\ \E k \in 1..Len(pdfFiles) : pdfFiles' = RemoveAt(pdfFiles, k)
  /\ UNCHANGED <<splitVars, routeVars, isProcessing, compressionMode, compressionSettings, alertMsg,
                 downloads, pc, i, closure, invoked, settled, call>>

\* "Clear All": setPdfFiles([]), disabled while isProcessing.
Compress_ClearAll ==
  /\ tool = "compress" /\ Running /\ ~isProcessing
  /\ pdfFiles # <<>>
  /\ pdfFiles' = <<>>
  /\ UNCHANGED <<splitVars, routeVars, isProcessing, compressionMode, compressionSettings, alertMsg,
                 downloads, pc, i, closure, invoked, settled, call>>

\* Variant of the preset buttons: they stay enabled while a batch runs.
Compress_SetCompressionMode_Enabled ==
  /\ tool = "compress" /\ Running
  /\ \E m \in CompressionMode \ {compressionMode} : compressionMode' = m
  /\ UNCHANGED <<splitVars, routeVars, pdfFiles, isProcessing, compressionSettings, alertMsg,
                 downloads, pc, i, closure, invoked, settled, call>>

\* The preset buttons: setCompressionMode(option.mode), disabled={isProcessing}.
Compress_SetCompressionMode ==
  /\ tool = "compress" /\ Running /\ ~isProcessing
  /\ \E m \in CompressionMode \ {compressionMode} : compressionMode' = m
  /\ UNCHANGED <<splitVars, routeVars, pdfFiles, isProcessing, compressionSettings, alertMsg,
                 downloads, pc, i, closure, invoked, settled, call>>

\* handleCompressPDF(pdfFile): compressPDF(pdfFile.file, compressionMode, cb),
\* with the compressionMode of the render the handler was created in.  The
\* route's callback does not throw.
HandleCompressPDF(listed, c) ==
  CompressPDFCall(listed.file, c.compressionMode, {})

\* compressPDFs, from the click to `setIsProcessing(true)`.  The handler
\* itself refuses an empty list; its button is disabled while isProcessing.
CompressPDFs_Start ==
  /\ tool = "compress" /\ Running /\ ~isProcessing /\ pc = "idle"
  /\ IF Len(pdfFiles) = 0
       THEN /\ alertMsg' = "Please select at least 1 PDF file to compress"
            /\ UNCHANGED <<isProcessing, pc, i, closure, downloads, invoked, settled>>
       ELSE /\ isProcessing' = TRUE
            /\ closure' = [pdfFiles |-> pdfFiles, compressionMode |-> compressionMode]
            /\ pc' = "loop"
            /\ i' = 1
            /\ downloads' = <<>>
            /\ invoked' = <<>>
            /\ settled' = <<>>
            /\ alertMsg' = alertMsg
  /\ UNCHANGED <<splitVars, routeVars, pdfFiles, compressionMode, compressionSettings, call>>

\* Variant of the loop head: every document is started at once
\* (pdfFiles.map(handleCompressPDF)) instead of one after the other.
CompressPDFs_Loop_AllAtOnce ==
  /\ tool = "compress" /\ Running /\ pc = "loop"
  /\ IF i <= Len(closure.pdfFiles)
       THEN /\ pdfFiles' = [k \in 1..Len(pdfFiles) |->
                              [pdfFiles[k] EXCEPT !.status =
                                 IF k >= i THEN "processing" ELSE @]]
            /\ call' = HandleCompressPDF(Current, closure)
            /\ invoked' = Append(invoked, i)
            /\ pc' = "await"
            /\ UNCHANGED <<isProcessing, i, closure, downloads, settled>>
       ELSE /\ isProcessing' = FALSE
            /\ pc' = "idle"
            /\ i' = 0
            /\ closure' = NoClosure
            /\ downloads' = <<>>
            /\ invoked' = <<>>
            /\ settled' = <<>>
            /\ UNCHANGED <<pdfFiles, call>>
  /\ UNCHANGED <<splitVars, routeVars, compressionMode, compressionSettings, alertMsg>>

\* The head of `for (let i = 0; i < pdfFiles.length; i++)`: the document is
\* marked 'processing' and handed to handleCompressPDF; after the last one,
\* `finally { setIsProcessing(false) }`.
CompressPDFs_Loop ==
  /\ tool = "compress" /\ Running /\ pc = "loop"
  /\ IF i <= Len(closure.pdfFiles)
       THEN /\ pdfFiles' = SetStatus(pdfFiles, i, "processing")
            /\ call' = HandleCompressPDF(Current, closure)
            /\ invoked' = Append(invoked, i)
            /\ pc' = "await"
            /\ UNCHANGED <<isProcessing, i, closure, downloads, settled>>
       ELSE /\ isProcessing' = FALSE
            /\ pc' = "idle"
            /\ i' = 0
            /\ closure' = NoClosure
            /\ downloads' = <<>>
            /\ invoked' = <<>>
            /\ settled' = <<>>
            /\ UNCHANGED <<pdfFiles, call>>
  /\ UNCHANGED <<splitVars, routeVars, compressionMode, compressionSettings, alertMsg>>

\* Variant of the try block: the downloads are queued newest first.
CompressPDFs_Resolved_Newest ==
  /\ tool = "compress" /\ Running /\ pc = "await"
  /\ call.pc = "resolved"
  /\ pdfFiles' = SetStatus(pdfFiles, i, "completed")
  /\ downloads' = <<i>> \o downloads
  /\ call' = IdleCall
  /\ i' = i + 1
  /\ pc' = "loop"
  /\ UNCHANGED <<splitVars, routeVars, isProcessing, compressionMode, compressionSettings, alertMsg,
                 closure, invoked, settled>>

\* The try block after `await handleCompressPDF(pdfFile)` resolved: the
\* file is marked 'completed' and `compressed-<name>` is downloaded.
CompressPDFs_Resolved ==
  /\ tool = "compress" /\ Running /\ pc = "await"
  /\ call.pc = "resolved"
  /\ pdfFiles' = SetStatus(pdfFiles, i, "completed")
  /\ downloads' = Append(downloads, i)
  /\ call' = IdleCall
  /\ i' = i + 1
  /\ pc' = "loop"
  /\ UNCHANGED <<splitVars, routeVars, isProcessing, compressionMode, compressionSettings, alertMsg,
                 closure, invoked, settled>>

\* Variant of the catch: the file is marked 'error' and the loop is left.
CompressPDFs_Rejected_Break ==
  /\ tool = "compress" /\ Running /\ pc = "await"
  /\ call.pc = "rejected"
  /\ pdfFiles' = SetStatus(pdfFiles, i, "error")
  /\ call' = IdleCall
  /\ i' = Len(closure.pdfFiles) + 1
  /\ pc' = "loop"
  /\ UNCHANGED <<splitVars, routeVars, isProcessing, compressionMode, compressionSettings, alertMsg,
                 downloads, closure, invoked, settled>>

\* Variant of the catch: the same file is handed to compressPDF once more.
CompressPDFs_Rejected_Retry ==
  /\ tool = "compress" /\ Running /\ pc = "await"
  /\ call.pc = "rejected"
  /\ pdfFiles' = SetStatus(pdfFiles, i, "error")
  /\ call' = IdleCall
  /\ i' = IF Len(invoked) < 2 * Len(closure.pdfFiles) THEN i ELSE i + 1
  /\ pc' = "loop"
  /\ UNCHANGED <<splitVars, routeVars, isProcessing, compressionMode, compressionSettings, alertMsg,
                 downloads, closure, invoked, settled>>

\* catch (error): the file is marked 'error'; the loop goes on.
CompressPDFs_Rejected ==
  /\ tool = "compress" /\ Running /\ pc = "await"
  /\ call.pc = "rejected"
  /\ pdfFiles' = SetStatus(pdfFiles, i, "error")
  /\ call' = IdleCall
  /\ i' = i + 1
  /\ pc' = "loop"
  /\ UNCHANGED <<splitVars, routeVars, isProcessing, compressionMode, compressionSettings, alertMsg,
                 downloads, closure, invoked, settled>>

----------------------------------------------------------------------------
(* The PDF-to-Word route *)

\* htmlContent / docxBlob of a file that has none yet (undefined).
Undefined == <<0>>

\* addFiles: a PDFFile with status 'pending' and no output.
Word_NewPdfFile(f) ==
  [file |-> f, status |-> "pending", progress |-> NoProgress,
   htmlContent |-> Undefined, docxBlob |-> Undefined]

\* The frame of convertPdfToHtml / convertHtmlToDocx for one file.
ConvertCall(f) ==
  [pc |-> "load", pdfFile |-> f, numPages |-> 0, pageNum |-> 0,
   step |-> "none", htmlContent |-> <<>>, docxBlob |-> <<>>]

\* for (let pageNum = 1; pageNum <= numPages; pageNum++) of convertPdfToHtml;
\* after the last page the html is closed and returned.
Word_NextPage(c) ==
  IF c.pageNum + 1 <= c.numPages
    THEN [c EXCEPT !.pageNum = c.pageNum + 1, !.step = "getPage"]
    ELSE [c EXCEPT !.pc = "html", !.pageNum = c.pageNum + 1, !.step = "none"]

\* htmlContent += `<div class="page"> ... Page ${pageNum} of ${numPages} ...`
Word_AppendPage(c) ==
  [c EXCEPT !.htmlContent = Append(@, c.pageNum)]

\* convertHtmlToDocx: for each .page a paragraph with its page-number text
\* (the page holds no <p>), and a page break after every page but the last.
DocxParagraphs(html) ==
  [k \in 1..Len(html) |-> [pageNumber |-> html[k], pageBreak |-> k < Len(html)]]

Word_AddFiles ==
  /\ tool = "word" /\ Running /\ ~isProcessing
  /\ Len(pdfFiles) < MaxFiles
  /\ \E f \in RouteFiles : pdfFiles' = Append(pdfFiles, Word_NewPdfFile(f))
  /\ UNCHANGED <<splitVars, routeVars, isProcessing, compressionMode, compressionSettings, alertMsg,
                 downloads, pc, i, closure, invoked, settled, call>>

Word_RemoveFile ==
  /\ tool = "word" /\ Running /\ ~isProcessing
  /\ \E k \in 1..Len(pdfFiles) : pdfFiles' = RemoveAt(pdfFiles, k)
  /\ UNCHANGED <<splitVars, routeVars, isProcessing, compressionMode, compressionSettings, alertMsg,
                 downloads, pc, i, closure, invoked, settled, call>>

Word_ClearAll ==
  /\ tool = "word" /\ Running /\ ~isProcessing
  /\ pdfFiles # <<>>
  /\ pdfFiles' = <<>>
  /\ UNCHANGED <<splitVars, routeVars, isProcessing, compressionMode, compressionSettings, alertMsg,
                 downloads, pc, i, closure, invoked, settled, call>>

\* convertFiles, from the click to `setIsProcessing(true)`.
ConvertFiles_Start ==
  /\ tool = "word" /\ Running /\ ~isProcessing /\ pc = "idle"
  /\ IF Len(pdfFiles) = 0
       THEN /\ alertMsg' = "Please select at least 1 PDF file to convert"
            /\ UNCHANGED <<isProcessing, pc, i, closure>>
       ELSE /\ isProcessing' = TRUE
            /\ closure' = [NoClosure EXCEPT !.pdfFiles = pdfFiles]
            /\ pc' = "loop"
            /\ i' = 1
            /\ alertMsg' = alertMsg
  /\ UNCHANGED <<splitVars, routeVars, pdfFiles, compressionMode, compressionSettings, call,
                 downloads, invoked, settled>>

\* The loop head: status 'processing' with progress 0, then progress 30,
\* then convertPdfToHtml(pdfFile.file); after the last file, the finally.
ConvertFiles_Loop ==
  /\ tool = "word" /\ Running /\ pc = "loop"
  /\ IF i <= Len(closure.pdfFiles)
       THEN /\ pdfFiles' = SetProgress(SetStatus(pdfFiles, i, "processing"), i, 30)
            /\ call' = ConvertCall(Current.file)
            /\ invoked' = Append(invoked, i)
            /\ pc' = "await"
            /\ UNCHANGED <<isProcessing, i, closure, settled>>
       ELSE /\ isProcessing' = FALSE
            /\ pc' = "idle"
            /\ i' = 0
            /\ closure' = NoClosure
            /\ invoked' = <<>>
            /\ settled' = <<>>
            /\ UNCHANGED <<pdfFiles, call>>
  /\ UNCHANGED <<splitVars, routeVars, compressionMode, compressionSettings, alertMsg, downloads>>

\* convertPdfToHtml: await file.arrayBuffer(); await getDocument(...).promise
ConvertPdfToHtml_Load ==
  /\ tool = "word" /\ Running /\ call.pc = "load"
  /\ IF call.pdfFile.valid
       THEN /\ call' = Word_NextPage([call EXCEPT !.pc = "page",
                                                  !.numPages = call.pdfFile.numPages])
            /\ settled' = settled
       ELSE /\ call' = [call EXCEPT !.pc = "rejected"]
            /\ settled' = (i :> "rejected") @@ settled
  /\ UNCHANGED <<splitVars, routeVars, pdfFiles, isProcessing, compressionMode, compressionSettings,
                 alertMsg, downloads, pc, i, closure, invoked>>

\* await pdf.getPage(pageNum): no try block around it, a throw rejects
\* the conversion of the file.
ConvertPdfToHtml_GetPage ==
  /\ tool = "word" /\ Running /\ call.pc = "page" /\ call.step = "getPage"
  /\ \E ok \in BOOLEAN :
       IF ok
         THEN /\ call' = [call EXCEPT !.step = "render"]
              /\ settled' = settled
         ELSE /\ call' = [call EXCEPT !.pc = "rejected"]
              /\ settled' = (i :> "rejected") @@ settled
  /\ UNCHANGED <<splitVars, routeVars, pdfFiles, isProcessing, compressionMode, compressionSettings,
                 alertMsg, downloads, pc, i, closure, invoked>>

\* getContext('2d'), await page.render(...).promise, canvas.toDataURL and
\* the page's <div> appended to htmlContent.
ConvertPdfToHtml_Render ==
  /\ tool = "word" /\ Running /\ call.pc = "page" /\ call.step = "render"
  /\ \E ok \in BOOLEAN :
       IF ok
         THEN /\ call' = Word_NextPage(Word_AppendPage(call))
              /\ settled' = settled
         ELSE /\ call' = [call EXCEPT !.pc = "rejected"]
              /\ settled' = (i :> "rejected") @@ settled
  /\ UNCHANGED <<splitVars, routeVars, pdfFiles, isProcessing, compressionMode, compressionSettings,
                 alertMsg, downloads, pc, i, closure, invoked>>

\* After `await convertPdfToHtml` resolved: progress 70 and
\* convertHtmlToDocx(htmlContent) up to `await Packer.toBlob(document)`.
ConvertFiles_Html ==
  /\ tool = "word" /\ Running /\ pc = "await" /\ call.pc = "html"
  /\ pdfFiles' = SetProgress(pdfFiles, i, 70)
  /\ call' = [call EXCEPT !.pc = "pack"]
  /\ UNCHANGED <<splitVars, routeVars, isProcessing, compressionMode, compressionSettings, alertMsg,
                 downloads, pc, i, closure, invoked, settled>>

\* await Packer.toBlob(document)
ConvertHtmlToDocx_Pack ==
  /\ tool = "word" /\ Running /\ call.pc = "pack"
  /\ \E ok \in BOOLEAN :
       /\ call' = IF ok THEN [call EXCEPT !.pc = "resolved",
                                          !.docxBlob = DocxParagraphs(call.htmlContent)]
                        ELSE [call EXCEPT !.pc = "rejected"]
       /\ settled' = (i :> (IF ok THEN "resolved" ELSE "rejected")) @@ settled
  /\ UNCHANGED <<splitVars, routeVars, pdfFiles, isProcessing, compressionMode, compressionSettings,
                 alertMsg, downloads, pc, i, closure, invoked>>

\* "Update with results": htmlContent, docxBlob, status 'completed', progress 100.
ConvertFiles_Resolved ==
  /\ tool = "word" /\ Running /\ pc = "await" /\ call.pc = "resolved"
  /\ pdfFiles' = [pdfFiles EXCEPT ![i] =
                     [@ EXCEPT !.htmlContent = call.htmlContent,
                               !.docxBlob = call.docxBlob,
                               !.status = "completed", !.progress = 100]]
  /\ call' = IdleCall
  /\ i' = i + 1
  /\ pc' = "loop"
  /\ UNCHANGED <<splitVars, routeVars, isProcessing, compressionMode, compressionSettings, alertMsg,
                 downloads, closure, invoked, settled>>

\* catch (error): status 'error'; the loop goes on.
ConvertFiles_Rejected ==
  /\ tool = "word" /\ Running /\ pc = "await" /\ call.pc = "rejected"
  /\ pdfFiles' = SetStatus(pdfFiles, i, "error")
  /\ call' = IdleCall
  /\ i' = i + 1
  /\ pc' = "loop"
  /\ UNCHANGED <<splitVars, routeVars, isProcessing, compressionMode, compressionSettings, alertMsg,
                 downloads, closure, invoked, settled>>

----------------------------------------------------------------------------
(* The rotate route (second component of routes/organize/merge-pdf.tsx) *)

RotateDirection == {"clockwise", "counterclockwise"}

\* Variant of the rotation: the sum is not brought back into one turn.
NewRotation_NoWrap(rotation, direction) ==
  rotation + (IF direction = "clockwise" THEN 90 ELSE 0 - 90)

\* const change = direction === 'clockwise' ? 90 : -90
\* const newRotation = (file.rotation + change + 360) % 360
NewRotation(rotation, direction) ==
  (rotation + (IF direction = "clockwise" THEN 90 ELSE 0 - 90) + 360) % 360

\* addFiles: a file that loads is listed with rotation 0, status 'pending'.
Rotate_NewPdfFile(f) ==
  [file |-> f, rotation |-> 0, status |-> "pending"]

\* The frame of rotatePDF(pdfFile).
RotateCall(listed) ==
  [pc |-> "load", pdfFile |-> listed, pages |-> <<>>]

\* pages.forEach: page.setRotation(degrees(currentRotation + pdfFile.rotation)),
\* for a document whose pages are stored upright.
RotatePages(c) ==
  [c EXCEPT !.pc = "save",
            !.pages = [p \in 1..c.pdfFile.file.numPages |-> 0 + c.pdfFile.rotation]]

\* addFiles: each dropped file is loaded first; one that fails to load is
\* logged and left out.  The drop zone stays enabled while a batch runs.
Rotate_AddFiles ==
  /\ tool = "rotate" /\ Running
  /\ Len(pdfFiles) < MaxFiles
  /\ \E f \in RouteFiles :
       pdfFiles' = IF f.valid THEN Append(pdfFiles, Rotate_NewPdfFile(f)) ELSE pdfFiles
  /\ UNCHANGED <<splitVars, routeVars, isProcessing, compressionMode, compressionSettings, alertMsg,
                 downloads, pc, i, closure, invoked, settled, call>>

Rotate_RemoveFile ==
  /\ tool = "rotate" /\ Running /\ ~isProcessing
  /\ \E k \in 1..Len(pdfFiles) : pdfFiles' = RemoveAt(pdfFiles, k)
  /\ UNCHANGED <<splitVars, routeVars, isProcessing, compressionMode, compressionSettings, alertMsg,
                 downloads, pc, i, closure, invoked, settled, call>>

Rotate_ClearAll ==
  /\ tool = "rotate" /\ Running /\ ~isProcessing
  /\ pdfFiles # <<>>
  /\ pdfFiles' = <<>>
  /\ UNCHANGED <<splitVars, routeVars, isProcessing, compressionMode, compressionSettings, alertMsg,
                 downloads, pc, i, closure, invoked, settled, call>>

\* rotateFile(id, direction)
RotateFile ==
  /\ tool = "rotate" /\ Running /\ ~isProcessing
  /\ \E k \in 1..Len(pdfFiles), d \in RotateDirection :
       pdfFiles' = [pdfFiles EXCEPT ![k] =
                      [@ EXCEPT !.rotation = NewRotation(@, d)]]
  /\ UNCHANGED <<splitVars, routeVars, isProcessing, compressionMode, compressionSettings, alertMsg,
                 downloads, pc, i, closure, invoked, settled, call>>

\* rotateAllFiles(direction)
RotateAllFiles ==
  /\ tool = "rotate" /\ Running /\ ~isProcessing
  /\ pdfFiles # <<>>
  /\ \E d \in RotateDirection :
       pdfFiles' = [k \in 1..Len(pdfFiles) |->
                      [pdfFiles[k] EXCEPT !.rotation = NewRotation(@, d)]]
  /\ UNCHANGED <<splitVars, routeVars, isProcessing, compressionMode, compressionSettings, alertMsg,
                 downloads, pc, i, closure, invoked, settled, call>>

\* resetRotation(id); its button is disabled when the rotation is 0.
ResetRotation ==
  /\ tool = "rotate" /\ Running /\ ~isProcessing
  /\ \E k \in 1..Len(pdfFiles) :
       /\ pdfFiles[k].rotation # 0
       /\ pdfFiles' = [pdfFiles EXCEPT ![k] = [@ EXCEPT !.rotation = 0]]
  /\ UNCHANGED <<splitVars, routeVars, isProcessing, compressionMode, compressionSettings, alertMsg,
                 downloads, pc, i, closure, invoked, settled, call>>

\* resetAllRotations()
ResetAllRotations ==
  /\ tool = "rotate" /\ Running /\ ~isProcessing
  /\ pdfFiles # <<>>
  /\ pdfFiles' = [k \in 1..Len(pdfFiles) |-> [pdfFiles[k] EXCEPT !.rotation = 0]]
  /\ UNCHANGED <<splitVars, routeVars, isProcessing, compressionMode, compressionSettings, alertMsg,
                 downloads, pc, i, closure, invoked, settled, call>>

\* processRotations, from the click to `setIsProcessing(true)`.
ProcessRotations_Start ==
  /\ tool = "rotate" /\ Running /\ ~isProcessing /\ pc = "idle"
  /\ IF Len(pdfFiles) = 0
       THEN /\ alertMsg' = "Please select at least 1 PDF file to rotate"
            /\ UNCHANGED <<isProcessing, pc, i, closure, downloads>>
       ELSE IF \A k \in 1..Len(pdfFiles) : pdfFiles[k].rotation = 0
       THEN /\ alertMsg' = "Please rotate at least one PDF file before processing"
            /\ UNCHANGED <<isProcessing, pc, i, closure, downloads>>
       ELSE /\ isProcessing' = TRUE
            /\ closure' = [NoClosure EXCEPT !.pdfFiles = pdfFiles]
            /\ pc' = "loop"
            /\ i' = 1
            /\ downloads' = <<>>
            /\ alertMsg' = alertMsg
  /\ UNCHANGED <<splitVars, routeVars, pdfFiles, compressionMode, compressionSettings, call,
                 invoked, settled>>

\* Variant of the loop: every file is handed to rotatePDF, rotated or not.
ProcessRotations_Loop_NoSkip ==
  /\ tool = "rotate" /\ Running /\ pc = "loop"
  /\ IF i <= Len(closure.pdfFiles)
       THEN /\ pdfFiles' = SetStatus(pdfFiles, i, "processing")
            /\ call' = RotateCall(Current)
            /\ invoked' = Append(invoked, i)
            /\ pc' = "await"
            /\ UNCHANGED <<isProcessing, i, closure, settled, downloads>>
       ELSE /\ isProcessing' = FALSE
            /\ pc' = "idle"
            /\ i' = 0
            /\ closure' = NoClosure
            /\ downloads' = <<>>
            /\ invoked' = <<>>
            /\ settled' = <<>>
            /\ UNCHANGED <<pdfFiles, call>>
  /\ UNCHANGED <<splitVars, routeVars, compressionMode, compressionSettings, alertMsg>>

\* for (const pdfFile of pdfFiles): a file with rotation 0 is marked
\* 'completed' and skipped; any other is marked 'processing' and handed to
\* rotatePDF; after the last file, the finally.
ProcessRotations_Loop ==
  /\ tool = "rotate" /\ Running /\ pc = "loop"
  /\ IF i <= Len(closure.pdfFiles)
       THEN IF Current.rotation = 0
         THEN /\ pdfFiles' = SetStatus(pdfFiles, i, "completed")
              /\ i' = i + 1
              /\ UNCHANGED <<isProcessing, pc, closure, call, invoked, settled, downloads>>
         ELSE /\ pdfFiles' = SetStatus(pdfFiles, i, "processing")
              /\ call' = RotateCall(Current)
              /\ invoked' = Append(invoked, i)
              /\ pc' = "await"
              /\ UNCHANGED <<isProcessing, i, closure, settled, downloads>>
       ELSE /\ isProcessing' = FALSE
            /\ pc' = "idle"
            /\ i' = 0
            /\ closure' = NoClosure
            /\ downloads' = <<>>
            /\ invoked' = <<>>
            /\ settled' = <<>>
            /\ UNCHANGED <<pdfFiles, call>>
  /\ UNCHANGED <<splitVars, routeVars, compressionMode, compressionSettings, alertMsg>>

\* rotatePDF: await arrayBuffer(), await PDFDocument.load, getPages, setRotation.
RotatePDF_Load ==
  /\ tool = "rotate" /\ Running /\ call.pc = "load"
  /\ IF call.pdfFile.file.valid
       THEN /\ call' = RotatePages(call)
            /\ settled' = settled
       ELSE /\ call' = [call EXCEPT !.pc = "rejected"]
            /\ settled' = (i :> "rejected") @@ settled
  /\ UNCHANGED <<splitVars, routeVars, pdfFiles, isProcessing, compressionMode, compressionSettings,
                 alertMsg, downloads, pc, i, closure, invoked>>

\* rotatePDF: return await pdfDoc.save()
RotatePDF_Save ==
  /\ tool = "rotate" /\ Running /\ call.pc = "save"
  /\ \E ok \in BOOLEAN :
       /\ call' = [call EXCEPT !.pc = IF ok THEN "resolved" ELSE "rejected"]
       /\ settled' = (i :> (IF ok THEN "resolved" ELSE "rejected")) @@ settled
  /\ UNCHANGED <<splitVars, routeVars, pdfFiles, isProcessing, compressionMode, compressionSettings,
                 alertMsg, downloads, pc, i, closure, invoked>>

\* After `await rotatePDF` resolved: status 'completed', `rotated-<name>` downloaded.
ProcessRotations_Resolved ==
  /\ tool = "rotate" /\ Running /\ pc = "await" /\ call.pc = "resolved"
  /\ pdfFiles' = SetStatus(pdfFiles, i, "completed")
  /\ downloads' = Append(downloads, i)
  /\ call' = IdleCall
  /\ i' = i + 1
  /\ pc' = "loop"
  /\ UNCHANGED <<splitVars, routeVars, isProcessing, compressionMode, compressionSettings, alertMsg,
                 closure, invoked, settled>>

\* catch (error): status 'error'; the loop goes on.
ProcessRotations_Rejected ==
  /\ tool = "rotate" /\ Running /\ pc = "await" /\ call.pc = "rejected"
  /\ pdfFiles' = SetStatus(pdfFiles, i, "error")
  /\ call' = IdleCall
  /\ i' = i + 1
  /\ pc' = "loop"
  /\ UNCHANGED <<splitVars, routeVars, isProcessing, compressionMode, compressionSettings, alertMsg,
                 downloads, closure, invoked, settled>>

----------------------------------------------------------------------------
(* The merge route (first component of routes/organize/merge-pdf.tsx) *)

\* addFiles: { id, file, name, size }
Merge_NewPdfFile(f) == [file |-> f]

\* The pages of the k-th captured file, as copyPages(pdf, pdf.getPageIndices())
\* returns them: <<file position, page number>> in the file's page order.
CopiedPages(k, f) == [p \in 1..f.numPages |-> <<k, p>>]

\* Variant of moveFile: past either end of the list the move wraps around.
MoveFileResult_Wrap(list, index, direction) ==
  LET targetIndex == (IF direction = "up" THEN index - 1 ELSE index + 1) % Len(list)
  IN  [list EXCEPT ![index + 1] = list[targetIndex + 1],
                   ![targetIndex + 1] = list[index + 1]]

\* moveFile(index, direction): indexes are 0-based in the source.
MoveFileResult(list, index, direction) ==
  LET targetIndex == IF direction = "up" THEN index - 1 ELSE index + 1
  IN  IF targetIndex < 0 \/ targetIndex >= Len(list)
        THEN list
        ELSE [list EXCEPT ![index + 1] = list[targetIndex + 1],
                          ![targetIndex + 1] = list[index + 1]]

\* None of the merge route's list controls is disabled while a merge runs.
Merge_AddFiles ==
  /\ tool = "merge" /\ Running
  /\ Len(pdfFiles) < MaxFiles
  /\ \E f \in RouteFiles : pdfFiles' = Append(pdfFiles, Merge_NewPdfFile(f))
  /\ UNCHANGED <<splitVars, routeVars, isProcessing, compressionMode, compressionSettings,
                 alertMsg, downloads, pc, i, closure, invoked, settled, call>>

Merge_RemoveFile ==
  /\ tool = "merge" /\ Running
  /\ \E k \in 1..Len(pdfFiles) : pdfFiles' = RemoveAt(pdfFiles, k)
  /\ UNCHANGED <<splitVars, routeVars, isProcessing, compressionMode, compressionSettings,
                 alertMsg, downloads, pc, i, closure, invoked, settled, call>>

Merge_ClearAll ==
  /\ tool = "merge" /\ Running
  /\ pdfFiles # <<>>
  /\ pdfFiles' = <<>>
  /\ UNCHANGED <<splitVars, routeVars, isProcessing, compressionMode, compressionSettings,
                 alertMsg, downloads, pc, i, closure, invoked, settled, call>>

\* moveFile(index, 'up' | 'down')
MoveFile ==
  /\ tool = "merge" /\ Running
  /\ \E index \in 0..(Len(pdfFiles) - 1), direction \in {"up", "down"} :
       pdfFiles' = MoveFileResult(pdfFiles, index, direction)
  /\ UNCHANGED <<splitVars, routeVars, isProcessing, compressionMode, compressionSettings,
                 alertMsg, downloads, pc, i, closure, invoked, settled, call>>

\* Variant of mergePDFs: a single file is accepted.
MergePDFs_Start_One ==
  /\ tool = "merge" /\ Running /\ ~isProcessing /\ pc = "idle"
  /\ IF Len(pdfFiles) < 1
       THEN /\ alertMsg' = "Please select at least 2 PDF files to merge"
            /\ UNCHANGED <<isProcessing, pc, i, closure, call>>
       ELSE /\ isProcessing' = TRUE
            /\ closure' = [NoClosure EXCEPT !.pdfFiles = pdfFiles]
            /\ pc' = "loop"
            /\ i' = 1
            /\ call' = [pc |-> "merging", mergedPdf |-> <<>>]
            /\ alertMsg' = alertMsg
  /\ UNCHANGED <<splitVars, routeVars, pdfFiles, compressionMode, compressionSettings,
                 downloads, invoked, settled>>

\* mergePDFs, from the click to `await PDFDocument.create()`.
MergePDFs_Start ==
  /\ tool = "merge" /\ Running /\ ~isProcessing /\ pc = "idle"
  /\ IF Len(pdfFiles) < 2
       THEN /\ alertMsg' = "Please select at least 2 PDF files to merge"
            /\ UNCHANGED <<isProcessing, pc, i, closure, call>>
       ELSE /\ isProcessing' = TRUE
            /\ closure' = [NoClosure EXCEPT !.pdfFiles = pdfFiles]
            /\ pc' = "loop"
            /\ i' = 1
            /\ call' = [pc |-> "merging", mergedPdf |-> <<>>]
            /\ alertMsg' = alertMsg
  /\ UNCHANGED <<splitVars, routeVars, pdfFiles, compressionMode, compressionSettings,
                 downloads, invoked, settled>>

\* Variant of the loop: a file that does not load is passed over.
MergePDFs_File_Skip ==
  /\ tool = "merge" /\ Running /\ pc = "loop"
  /\ i <= Len(closure.pdfFiles)
  /\ call' = IF Current.file.valid
               THEN [call EXCEPT !.mergedPdf = @ \o CopiedPages(i, Current.file)]
               ELSE call
  /\ i' = i + 1
  /\ UNCHANGED <<pc, alertMsg>>
  /\ UNCHANGED <<splitVars, routeVars, pdfFiles, isProcessing, compressionMode,
                 compressionSettings, downloads, closure, invoked, settled>>

\* for (const pdfFile of pdfFiles): load, copyPages, addPage.  A file that
\* does not load throws into the catch, which alerts.
MergePDFs_File ==
  /\ tool = "merge" /\ Running /\ pc = "loop"
  /\ i <= Len(closure.pdfFiles)
  /\ IF Current.file.valid
       THEN /\ call' = [call EXCEPT !.mergedPdf = @ \o CopiedPages(i, Current.file)]
            /\ i' = i + 1
            /\ UNCHANGED <<pc, alertMsg>>
       ELSE /\ alertMsg' = "An error occurred while merging PDFs. Please try again."
            /\ pc' = "finally"
            /\ UNCHANGED <<call, i>>
  /\ UNCHANGED <<splitVars, routeVars, pdfFiles, isProcessing, compressionMode,
                 compressionSettings, downloads, closure, invoked, settled>>

\* await mergedPdf.save(); the download of `merged-<time>.pdf`; setPdfFiles([]).
MergePDFs_Save ==
  /\ tool = "merge" /\ Running /\ pc = "loop"
  /\ i > Len(closure.pdfFiles)
  /\ \E ok \in BOOLEAN :
       IF ok
         THEN /\ downloads' = Append(downloads, call.mergedPdf)
              /\ pdfFiles' = <<>>
              /\ alertMsg' = alertMsg
         ELSE /\ alertMsg' = "An error occurred while merging PDFs. Please try again."
              /\ UNCHANGED <<downloads, pdfFiles>>
  /\ pc' = "finally"
  /\ UNCHANGED <<splitVars, routeVars, isProcessing, compressionMode, compressionSettings,
                 i, closure, invoked, settled, call>>

\* finally { setIsProcessing(false) }
MergePDFs_Finally ==
  /\ tool = "merge" /\ Running /\ pc = "finally"
  /\ isProcessing' = FALSE
  /\ pc' = "idle"
  /\ i' = 0
  /\ closure' = NoClosure
  /\ call' = IdleCall
  /\ downloads' = <<>>
  /\ UNCHANGED <<splitVars, routeVars, pdfFiles, compressionMode, compressionSettings,
                 alertMsg, invoked, settled>>

----------------------------------------------------------------------------
(* The split route (routes/organize/split-pdf, in routes/index.tsx) *)

\* splitPDF reads pdfFile, splitMode, selectedPages and pageRanges from the
\* closure of the render it was started in, so an edit made while it runs
\* does not reach the running split.  The remove button, which also clears
\* the selections, is modelled at any time; the mode, page and range
\* controls are modelled only while no split runs.

SplitMode == {"pages", "ranges", "all"}

\* Largest number of page ranges in the list.
MaxRanges == 2

\* What the range inputs hand to updateRange: parseInt(value) || 1 is any
\* integer but 0.  The values kept: below the first page, pages 1 and 2, and
\* beyond the last page.
RangeInputs == {0 - 1, 1, 2, 3}

\* pdfFile === null
NoPdfFile == [present |-> FALSE, pageCount |-> 0]

\* useState<PageRange[]>([{ id: '1', start: 1, end: 1 }])
InitialRanges == <<[start |-> 1, end |-> 1]>>

Min(a, b) == IF a <= b THEN a ELSE b

\* The members of a set of numbers, smallest first.
RECURSIVE SortedPages(_)
SortedPages(S) ==
  IF S = {} THEN <<>>
  ELSE LET m == CHOOSE x \in S : \A y \in S : x <= y
       IN  <<m>> \o SortedPages(S \ {m})

\* Where sort puts a number into an ascending list.
RECURSIVE Insert(_, _)
Insert(sorted, x) ==
  IF sorted = <<>> THEN <<x>>
  ELSE IF x < Head(sorted) THEN <<x>> \o sorted
  ELSE <<Head(sorted)>> \o Insert(Tail(sorted), x)

\* Variant of the sort: the pages stay in the order they were selected in.
RECURSIVE SortAscending_Unsorted(_)
SortAscending_Unsorted(seq) ==
  IF seq = <<>> THEN <<>>
  ELSE <<Head(seq)>> \o SortAscending_Unsorted(Tail(seq))

\* Array.from(selectedPages).sort((a, b) => a - b)
RECURSIVE SortAscending(_)
SortAscending(seq) ==
  IF seq = <<>> THEN <<>>
  ELSE Insert(SortAscending(Tail(seq)), Head(seq))

\* for (let i = range.start; i <= range.end; i++) pages.push(i - 1)
RangeIndices(range) ==
  [k \in 1..(IF range.end >= range.start THEN range.end - range.start + 1 ELSE 0)
     |-> range.start + k - 2]

\* pagesToSplit of splitPDF: one list of 0-based page indexes per output.
PagesToSplit(c) ==
  IF c.splitMode = "all"
    THEN [k \in 1..c.pdfFile.pageCount |-> <<k - 1>>]
  ELSE IF c.splitMode = "pages"
    THEN LET sorted == SortAscending(c.selectedPages)
         IN  [k \in 1..Len(sorted) |-> <<sorted[k] - 1>>]
  ELSE [k \in 1..Len(c.pageRanges) |-> RangeIndices(c.pageRanges[k])]

\* The inner loop of an output: only indexes inside the source are copied.
RECURSIVE CopyPages(_, _)
CopyPages(pageIndices, pageCount) ==
  IF pageIndices = <<>> THEN <<>>
  ELSE (IF Head(pageIndices) >= 0 /\ Head(pageIndices) < pageCount
          THEN <<Head(pageIndices)>> ELSE <<>>)
       \o CopyPages(Tail(pageIndices), pageCount)

\* addFile(file), shown while no file is loaded: a file that loads becomes
\* pdfFile and resets the selections; one that does not is reported.
Split_AddFile ==
  /\ tool = "split" /\ Running /\ ~isProcessing
  /\ ~pdfFile.present
  /\ \E f \in RouteFiles :
       IF f.valid
         THEN /\ pdfFile' = [present |-> TRUE, pageCount |-> f.numPages]
              /\ selectedPages' = <<>>
              /\ pageRanges' = <<[start |-> 1, end |-> Min(1, f.numPages)]>>
              /\ alertMsg' = alertMsg
         ELSE /\ alertMsg' = "Failed to load PDF file. Please try another file."
              /\ UNCHANGED <<pdfFile, selectedPages, pageRanges>>
  /\ UNCHANGED <<splitMode, routeVars, pdfFiles, isProcessing, compressionMode,
                 compressionSettings, downloads, pc, i, closure, invoked, settled, call>>

\* removeFile(): the X of the file panel, never disabled.
Split_RemoveFile ==
  /\ tool = "split" /\ Running
  /\ pdfFile.present
  /\ pdfFile' = NoPdfFile
  /\ selectedPages' = <<>>
  /\ pageRanges' = InitialRanges
  /\ UNCHANGED <<splitMode, routeVars, pdfFiles, isProcessing, compressionMode,
                 compressionSettings, alertMsg, downloads, pc, i, closure, invoked,
                 settled, call>>

\* The radio buttons of the file panel: setSplitMode(value).
SetSplitMode ==
  /\ tool = "split" /\ Running /\ ~isProcessing
  /\ pdfFile.present
  /\ \E m \in SplitMode \ {splitMode} : splitMode' = m
  /\ UNCHANGED <<pdfFile, selectedPages, pageRanges, routeVars, pdfFiles, isProcessing,
                 compressionMode, compressionSettings, alertMsg, downloads, pc, i,
                 closure, invoked, settled, call>>

\* togglePage(pageNum), from the page grid shown in 'pages' mode.
TogglePage ==
  /\ tool = "split" /\ Running /\ ~isProcessing
  /\ pdfFile.present /\ splitMode = "pages"
  /\ \E pageNum \in 1..pdfFile.pageCount :
       selectedPages' = IF \E k \in 1..Len(selectedPages) : selectedPages[k] = pageNum
                          THEN SelectSeq(selectedPages, LAMBDA p : p # pageNum)
                          ELSE Append(selectedPages, pageNum)
  /\ UNCHANGED <<pdfFile, splitMode, pageRanges, routeVars, pdfFiles, isProcessing,
                 compressionMode, compressionSettings, alertMsg, downloads, pc, i,
                 closure, invoked, settled, call>>

\* addRange(), from the range list shown in 'ranges' mode.
AddRange ==
  /\ tool = "split" /\ Running /\ ~isProcessing
  /\ pdfFile.present /\ splitMode = "ranges"
  /\ Len(pageRanges) < MaxRanges
  /\ pageRanges' = Append(pageRanges, [start |-> 1, end |-> Min(1, pdfFile.pageCount)])
  /\ UNCHANGED <<pdfFile, splitMode, selectedPages, routeVars, pdfFiles, isProcessing,
                 compressionMode, compressionSettings, alertMsg, downloads, pc, i,
                 closure, invoked, settled, call>>

\* updateRange(id, field, value)
UpdateRange ==
  /\ tool = "split" /\ Running /\ ~isProcessing
  /\ pdfFile.present /\ splitMode = "ranges"
  /\ \E k \in 1..Len(pageRanges), field \in {"start", "end"}, value \in RangeInputs :
       pageRanges' = [pageRanges EXCEPT ![k] =
                        IF field = "start" THEN [@ EXCEPT !.start = value]
                                           ELSE [@ EXCEPT !.end = value]]
  /\ UNCHANGED <<pdfFile, splitMode, selectedPages, routeVars, pdfFiles, isProcessing,
                 compressionMode, compressionSettings, alertMsg, downloads, pc, i,
                 closure, invoked, settled, call>>

\* removeRange(id): the last range cannot be removed.
RemoveRange ==
  /\ tool = "split" /\ Running /\ ~isProcessing
  /\ pdfFile.present /\ splitMode = "ranges"
  /\ \E k \in 1..Len(pageRanges) :
       pageRanges' = IF Len(pageRanges) > 1 THEN RemoveAt(pageRanges, k) ELSE pageRanges
  /\ UNCHANGED <<pdfFile, splitMode, selectedPages, routeVars, pdfFiles, isProcessing,
                 compressionMode, compressionSettings, alertMsg, downloads, pc, i,
                 closure, invoked, settled, call>>

\* splitPDF, from the click to `await pdfFile.file.arrayBuffer()`.
SplitPDF_Start ==
  /\ tool = "split" /\ Running /\ ~isProcessing /\ pc = "idle"
  /\ IF ~pdfFile.present
       THEN /\ alertMsg' = "Please select a PDF file first"
            /\ UNCHANGED <<isProcessing, pc, closure>>
       ELSE /\ isProcessing' = TRUE
            /\ closure' = [pdfFile |-> pdfFile, splitMode |-> splitMode,
                            selectedPages |-> selectedPages, pageRanges |-> pageRanges]
            /\ pc' = "load"
            /\ alertMsg' = alertMsg
  /\ UNCHANGED <<splitVars, routeVars, pdfFiles, compressionMode, compressionSettings,
                 downloads, i, invoked, settled, call>>

\* Variant of the early return: it leaves the handler past its finally.
SplitPDF_Load_Return ==
  /\ tool = "split" /\ Running /\ pc = "load"
  /\ IF Len(PagesToSplit(closure)) = 0
       THEN /\ alertMsg' = "Please select at least one page or range to split"
            /\ pc' = "idle"
            /\ UNCHANGED <<i, call>>
       ELSE /\ call' = [pc |-> "splitting", pagesToSplit |-> PagesToSplit(closure)]
            /\ i' = 1
            /\ pc' = "loop"
            /\ alertMsg' = alertMsg
  /\ UNCHANGED <<splitVars, routeVars, pdfFiles, isProcessing, compressionMode,
                 compressionSettings, downloads, closure, invoked, settled>>

\* PDFDocument.load, then pagesToSplit; with nothing to split the handler
\* alerts, and returns through the finally.
SplitPDF_Load ==
  /\ tool = "split" /\ Running /\ pc = "load"
  /\ IF Len(PagesToSplit(closure)) = 0
       THEN /\ alertMsg' = "Please select at least one page or range to split"
            /\ pc' = "finally"
            /\ UNCHANGED <<i, call>>
       ELSE /\ call' = [pc |-> "splitting", pagesToSplit |-> PagesToSplit(closure)]
            /\ i' = 1
            /\ pc' = "loop"
            /\ alertMsg' = alertMsg
  /\ UNCHANGED <<splitVars, routeVars, pdfFiles, isProcessing, compressionMode,
                 compressionSettings, downloads, closure, invoked, settled>>

\* One round of `for (let i = 0; i < pagesToSplit.length; i++)`: the pages
\* are copied into a new document, which is saved and downloaded.  A save
\* that fails throws into the catch, which alerts.
SplitPDF_Output ==
  /\ tool = "split" /\ Running /\ pc = "loop"
  /\ i <= Len(call.pagesToSplit)
  /\ \E ok \in BOOLEAN :
       IF ok
         THEN /\ downloads' = Append(downloads,
                     CopyPages(call.pagesToSplit[i], closure.pdfFile.pageCount))
              /\ i' = i + 1
              /\ UNCHANGED <<pc, alertMsg>>
         ELSE /\ alertMsg' = "An error occurred while splitting the PDF. Please try again."
              /\ pc' = "finally"
              /\ UNCHANGED <<downloads, i>>
  /\ UNCHANGED <<splitVars, routeVars, pdfFiles, isProcessing, compressionMode,
                 compressionSettings, closure, invoked, settled, call>>

\* After the loop: alert(`Successfully split ...`) and removeFile().
SplitPDF_Done ==
  /\ tool = "split" /\ Running /\ pc = "loop"
  /\ i > Len(call.pagesToSplit)
  /\ alertMsg' = "Successfully split"
  /\ pdfFile' = NoPdfFile
  /\ selectedPages' = <<>>
  /\ pageRanges' = InitialRanges
  /\ pc' = "finally"
  /\ UNCHANGED <<splitMode, routeVars, pdfFiles, isProcessing, compressionMode,
                 compressionSettings, downloads, i, closure, invoked, settled, call>>

\* finally { setIsProcessing(false) }
SplitPDF_Finally ==
  /\ tool = "split" /\ Running /\ pc = "finally"
  /\ isProcessing' = FALSE
  /\ pc' = "idle"
  /\ i' = 0
  /\ closure' = NoClosure
  /\ call' = IdleCall
  /\ downloads' = <<>>
  /\ UNCHANGED <<splitVars, routeVars, pdfFiles, compressionMode, compressionSettings,
                 alertMsg, invoked, settled>>

----------------------------------------------------------------------------
(* The organize route (unnamed/part_002) *)

\* The organizer holds one document (pdfFile: PDFFileData | null, null being
\* NoPdfFile) with its list of pages.  A page's id is made from its
\* pageNumber, and the pageNumbers of a list are distinct (loadPdfFile gives
\* 1..pageCount, handleAddPages goes on from the maximum), so a page is
\* identified by its pageNumber.  Previews are left out: generatePagePreview
\* catches its own errors and nothing reads previewUrl but the picture.
\* The page controls are modelled while no save runs.

\* The most pages the list gets by Add Pages.
MaxOrganizePages == 3

\* draggedPageId === null, dragOverPageId === null
NoPage == 0

\* The id of a page of a document that was closed: it matches no page of the
\* list any more (ids carry Date.now()).
StalePage == MaxOrganizePages + 1

\* The controls that are not this route's.
organizeFrame ==
  <<tool, ocrVars, splitMode, selectedPages, pageRanges, pdfFiles, compressionMode,
    compressionSettings, i, invoked, settled>>

\* { id, pageNumber, rotation: 0, previewUrl, isDeleted: false }
NewPage(pageNumber) ==
  [pageNumber |-> pageNumber, rotation |-> 0, isDeleted |-> FALSE]

\* pages.filter((p) => !p.isDeleted)
ActivePages(pages) == SelectSeq(pages, LAMBDA p : ~p.isDeleted)

\* pages.findIndex((p) => p.id === pageId), from 1; 0 for -1.
FindIndex(pages, pageId) ==
  IF \E k \in 1..Len(pages) : pages[k].pageNumber = pageId
    THEN CHOOSE k \in 1..Len(pages) : pages[k].pageNumber = pageId
    ELSE 0

\* Math.max(...pdfFile.pages.map((p) => p.pageNumber))
CurrentMaxPage(pages) ==
  CHOOSE m \in {pages[k].pageNumber : k \in 1..Len(pages)} :
    \A k \in 1..Len(pages) : pages[k].pageNumber <= m

\* (page.rotation + change + 360) % 360, change being 90 for 'cw', -90 for 'ccw'.
RotatePageBy(rotation, direction) ==
  (rotation + (IF direction = "cw" THEN 90 ELSE -90) + 360) % 360

\* Variant of the drop: the dragged page and the target change places.
DropPage_Swap(pages, draggedIndex, targetIndex) ==
  [pages EXCEPT ![draggedIndex] = pages[targetIndex],
                ![targetIndex] = pages[draggedIndex]]

\* const [draggedPage] = pages.splice(draggedIndex, 1);
\* pages.splice(targetIndex, 0, draggedPage)
DropPage(pages, draggedIndex, targetIndex) ==
  LET rest == SubSeq(pages, 1, draggedIndex - 1)
                \o SubSeq(pages, draggedIndex + 1, Len(pages))
  IN  SubSeq(rest, 1, targetIndex - 1) \o <<pages[draggedIndex]>>
        \o SubSeq(rest, targetIndex, Len(rest))

\* The frame of processPDF: the page of activePages the loop is at, newPdf
\* as the list of its pages (the page of the original they were copied from,
\* the rotation added), and how the handler ended.
OrganizeCall == [pc |-> "organize", step |-> "load", k |-> 0, newPdf |-> <<>>]

\* After setPdfFile(null) a dragged id belongs to no page.
Stale(pageId) == IF pageId = NoPage THEN NoPage ELSE StalePage

\* loadPdfFile, to setPdfFile(fileData): the drop zone and its input are
\* there while pdfFile is null; a file that does not load gives the alert.
LoadPdfFile_Start ==
  /\ tool = "organize" /\ Running /\ ~isProcessing
  /\ ~pdfFile.present
  /\ \E f \in RouteFiles :
       IF f.valid
         THEN /\ pdfFile' = [present |-> TRUE, isLoading |-> TRUE, file |-> f,
                             pages |-> <<>>]
              /\ alertMsg' = alertMsg
         ELSE /\ alertMsg' = "Error loading PDF file. Please try again."
              /\ pdfFile' = pdfFile
  /\ UNCHANGED <<organizeFrame, organizeVars, isProcessing, downloads, pc, closure, call>>

\* loadPdfFile, the previews and setPdfFile({...prev, pages, isLoading: false}).
LoadPdfFile_Pages ==
  /\ tool = "organize" /\ Running
  /\ pdfFile.present /\ pdfFile.isLoading
  /\ pdfFile' = [pdfFile EXCEPT
                   !.pages = [k \in 1..pdfFile.file.numPages |-> NewPage(k)],
                   !.isLoading = FALSE]
  /\ UNCHANGED <<organizeFrame, organizeVars, isProcessing, alertMsg, downloads, pc,
                 closure, call>>

\* The editor, with its buttons, is there when a document is loaded.
Editing ==
  /\ tool = "organize" /\ Running /\ ~isProcessing
  /\ pdfFile.present /\ ~pdfFile.isLoading

\* handleAddPages: the pages of another document are put at the end of the
\* list, numbered on from the highest pageNumber; a file that does not load
\* gives the alert.  One step: what it awaits changes no state.
HandleAddPages ==
  /\ Editing
  /\ \E newFile \in RouteFiles :
       IF newFile.valid
         THEN /\ Len(pdfFile.pages) + newFile.numPages <= MaxOrganizePages
              /\ LET currentMaxPage == CurrentMaxPage(pdfFile.pages)
                     newPages == [k \in 1..newFile.numPages |-> NewPage(currentMaxPage + k)]
                 IN  pdfFile' = [pdfFile EXCEPT !.pages = pdfFile.pages \o newPages]
              /\ alertMsg' = alertMsg
         ELSE /\ alertMsg' = "Error adding pages. Please try again."
              /\ pdfFile' = pdfFile
  /\ UNCHANGED <<organizeFrame, organizeVars, isProcessing, downloads, pc, closure, call>>

\* rotatePage(page.id, 'cw' | 'ccw'): the buttons of a page of the grid.
RotatePage ==
  /\ Editing
  /\ \E k \in 1..Len(pdfFile.pages), direction \in {"cw", "ccw"} :
       /\ ~pdfFile.pages[k].isDeleted
       /\ pdfFile' = [pdfFile EXCEPT !.pages[k].rotation =
                        RotatePageBy(pdfFile.pages[k].rotation, direction)]
  /\ UNCHANGED <<organizeFrame, organizeVars, isProcessing, alertMsg, downloads, pc,
                 closure, call>>

\* deletePage(page.id): the trash button of a page of the grid.
DeletePage ==
  /\ Editing
  /\ \E k \in 1..Len(pdfFile.pages) :
       /\ ~pdfFile.pages[k].isDeleted
       /\ pdfFile' = [pdfFile EXCEPT !.pages[k].isDeleted = TRUE]
  /\ UNCHANGED <<organizeFrame, organizeVars, isProcessing, alertMsg, downloads, pc,
                 closure, call>>

\* restorePage(page.id): the button of a page of the deleted list.
RestorePage ==
  /\ Editing
  /\ \E k \in 1..Len(pdfFile.pages) :
       /\ pdfFile.pages[k].isDeleted
       /\ pdfFile' = [pdfFile EXCEPT !.pages[k].isDeleted = FALSE]
  /\ UNCHANGED <<organizeFrame, organizeVars, isProcessing, alertMsg, downloads, pc,
                 closure, call>>

\* handlePageDragStart(page.id): a page of the grid is picked up.
HandlePageDragStart ==
  /\ Editing
  /\ \E k \in 1..Len(pdfFile.pages) :
       /\ ~pdfFile.pages[k].isDeleted
       /\ draggedPageId' = pdfFile.pages[k].pageNumber
  /\ UNCHANGED <<dragOverPageId, organizeFrame, splitVars, isProcessing, alertMsg, downloads, pc,
                 closure, call>>

\* handlePageDragOver(e, page.id): something is dragged over a page of the grid.
HandlePageDragOver ==
  /\ Editing
  /\ \E k \in 1..Len(pdfFile.pages) :
       /\ ~pdfFile.pages[k].isDeleted
       /\ dragOverPageId' = pdfFile.pages[k].pageNumber
  /\ UNCHANGED <<draggedPageId, organizeFrame, splitVars, isProcessing, alertMsg,
                 downloads, pc, closure, call>>

\* handlePageDrop(e, page.id): something is dropped on a page of the grid.
HandlePageDrop ==
  /\ Editing
  /\ \E t \in 1..Len(pdfFile.pages) :
       /\ ~pdfFile.pages[t].isDeleted
       /\ LET targetPageId == pdfFile.pages[t].pageNumber
              draggedIndex == FindIndex(pdfFile.pages, draggedPageId)
              targetIndex == FindIndex(pdfFile.pages, targetPageId)
          IN  IF draggedPageId = NoPage \/ draggedPageId = targetPageId
                THEN pdfFile' = pdfFile
                ELSE IF draggedIndex = 0 \/ targetIndex = 0
                THEN pdfFile' = pdfFile
                ELSE pdfFile' = [pdfFile EXCEPT !.pages =
                                   DropPage(pdfFile.pages, draggedIndex, targetIndex)]
  /\ draggedPageId' = NoPage
  /\ dragOverPageId' = NoPage
  /\ UNCHANGED <<organizeFrame, splitMode, selectedPages, pageRanges, isProcessing,
                 alertMsg, downloads, pc, closure, call>>

\* The Close button: setPdfFile(null).
ClosePdfFile ==
  /\ Editing
  /\ pdfFile' = NoPdfFile
  /\ draggedPageId' = Stale(draggedPageId)
  /\ dragOverPageId' = Stale(dragOverPageId)
  /\ UNCHANGED <<organizeFrame, splitMode, selectedPages, pageRanges, isProcessing,
                 alertMsg, downloads, pc, closure, call>>

\* Variant of the start: the deleted pages are taken along.
ProcessPDF_Start_AllPages ==
  /\ Editing /\ pc = "idle"
  /\ Len(ActivePages(pdfFile.pages)) # 0
  /\ isProcessing' = TRUE
  /\ closure' = [pdfFile |-> pdfFile, activePages |-> pdfFile.pages]
  /\ pc' = "organize"
  /\ call' = OrganizeCall
  /\ downloads' = <<>>
  /\ alertMsg' = alertMsg
  /\ UNCHANGED <<organizeFrame, organizeVars, splitVars>>

\* processPDF, from the click to `await pdfFile.file.arrayBuffer()`.  The
\* button is disabled while isProcessing or with no active page.
ProcessPDF_Start ==
  /\ Editing /\ pc = "idle"
  /\ Len(ActivePages(pdfFile.pages)) # 0
  /\ LET activePages == ActivePages(pdfFile.pages)
     IN  IF Len(activePages) = 0
           THEN /\ alertMsg' = "No pages to save. Please keep at least one page."
                /\ UNCHANGED <<isProcessing, pc, closure, call, downloads>>
           ELSE /\ isProcessing' = TRUE
                /\ closure' = [pdfFile |-> pdfFile, activePages |-> activePages]
                /\ pc' = "organize"
                /\ call' = OrganizeCall
                /\ downloads' = <<>>
                /\ alertMsg' = alertMsg
  /\ UNCHANGED <<organizeFrame, organizeVars, splitVars>>

\* await arrayBuffer(), await PDFDocument.load (the document that loaded in
\* loadPdfFile), await PDFDocument.create(); the loop starts.
ProcessPDF_Load ==
  /\ tool = "organize" /\ Running /\ pc = "organize" /\ call.step = "load"
  /\ call' = [call EXCEPT !.step = "copy", !.k = 1]
  /\ UNCHANGED <<organizeFrame, organizeVars, splitVars, isProcessing, alertMsg,
                 downloads, pc, closure>>

\* One turn of `for (const page of activePages)`: copyPages(originalPdf,
\* [page.pageNumber - 1]) reads the page of the original at that index, and
\* throws where the original has none; the page's rotation is added and the
\* copy put at the end of newPdf.  A throw lands in the catch and its alert.
ProcessPDF_Copy ==
  /\ tool = "organize" /\ Running /\ pc = "organize" /\ call.step = "copy"
  /\ call.k <= Len(closure.activePages)
  /\ LET page == closure.activePages[call.k]
     IN  IF page.pageNumber <= closure.pdfFile.file.numPages
           THEN /\ call' = [call EXCEPT
                              !.newPdf = Append(call.newPdf,
                                           [pageNumber |-> page.pageNumber,
                                            rotation |-> page.rotation]),
                              !.k = call.k + 1]
                /\ alertMsg' = alertMsg
           ELSE /\ call' = [call EXCEPT !.step = "copyFailed"]
                /\ alertMsg' = "Error processing PDF. Please try again."
  /\ UNCHANGED <<organizeFrame, organizeVars, splitVars, isProcessing, downloads, pc,
                 closure>>

\* await newPdf.save(), the download of `organized-<name>`, setPdfFile(null);
\* a throw of save lands in the catch and its alert.
ProcessPDF_Save ==
  /\ tool = "organize" /\ Running /\ pc = "organize" /\ call.step = "copy"
  /\ call.k > Len(closure.activePages)
  /\ \E ok \in BOOLEAN :
       IF ok
         THEN /\ downloads' = <<call.newPdf>>
              /\ pdfFile' = NoPdfFile
              /\ draggedPageId' = Stale(draggedPageId)
              /\ dragOverPageId' = Stale(dragOverPageId)
              /\ call' = [call EXCEPT !.step = "done"]
              /\ alertMsg' = alertMsg
         ELSE /\ call' = [call EXCEPT !.step = "saveFailed"]
              /\ alertMsg' = "Error processing PDF. Please try again."
              /\ UNCHANGED <<downloads, pdfFile, draggedPageId, dragOverPageId>>
  /\ UNCHANGED <<organizeFrame, splitMode, selectedPages, pageRanges, isProcessing, pc,
                 closure>>

\* finally { setIsProcessing(false) }
ProcessPDF_Finally ==
  /\ tool = "organize" /\ Running /\ pc = "organize"
  /\ call.step \in {"done", "copyFailed", "saveFailed"}
  /\ isProcessing' = FALSE
  /\ pc' = "idle"
  /\ closure' = NoClosure
  /\ call' = IdleCall
  /\ downloads' = <<>>
  /\ UNCHANGED <<organizeFrame, organizeVars, splitVars, alertMsg>>

----------------------------------------------------------------------------
(* The OCR route (routes/optimize/ocr-pdf, in hooks/use-local-fonts.ts) *)

\* type Language = 'eng' | 'chi_sim' | 'khm'
Language == {"eng", "chi_sim", "khm"}

\* export const languages: the catalog the toggle buttons are made from.
languages == <<"eng", "chi_sim", "khm">>

\* file === null
NoFile == [present |-> FALSE, valid |-> FALSE, numPages |-> 0]

\* error === null
NoError == "null"

\* Variant of the updater: the only selected language can be deselected.
ToggleLanguage_Unguarded(prev, langCode) ==
  IF \E k \in 1..Len(prev) : prev[k] = langCode
    THEN SelectSeq(prev, LAMBDA l : l # langCode)
    ELSE Append(prev, langCode)

\* The updater of handleLanguageToggle: prev => ...
ToggleLanguage(prev, langCode) ==
  IF \E k \in 1..Len(prev) : prev[k] = langCode
    THEN IF Len(prev) = 1
           THEN prev
           ELSE SelectSeq(prev, LAMBDA l : l # langCode)
    ELSE Append(prev, langCode)

\* The frame of extractTextFromPDF: the worker made for the joined languages,
\* the page loop, fullText as its list of `--- Page n ---` sections, and the
\* pages worker.recognize was called for.
OcrCall ==
  [pc |-> "ocr", worker |-> <<>>, numPages |-> 0, pageNum |-> 0, step |-> "none",
   fullText |-> <<>>, recognized |-> <<>>]

\* Variant of the append: the section is put in front of the text.
Ocr_AppendSection_InFront(fullText, pageNum) ==
  <<[page |-> pageNum, text |-> pageNum]>> \o fullText

\* fullText += `\n\n--- Page ${pageNum} ---\n\n${pageText}`
Ocr_AppendSection(fullText, pageNum) ==
  Append(fullText, [page |-> pageNum, text |-> pageNum])

\* (pageNum / pdf.numPages) * 100, to the integer below.
OverallProgress(pageNum, numPages) == (pageNum * 100) \div numPages

\* handleFileChange: a PDF becomes `file` and clears text, error and
\* progress; anything else (or no file) sets the error.  The input is
\* disabled while isProcessing.
Ocr_HandleFileChange ==
  /\ tool = "ocr" /\ Running /\ ~isProcessing
  /\ \E isPdf \in BOOLEAN, f \in RouteFiles :
       IF isPdf
         THEN /\ file' = [present |-> TRUE, valid |-> f.valid, numPages |-> f.numPages]
              /\ extractedText' = <<>>
              /\ error' = NoError
              /\ progress' = 0
         ELSE /\ error' = "Please select a valid PDF file"
              /\ UNCHANGED <<file, extractedText, progress>>
  /\ downloads' = <<>>
  /\ UNCHANGED <<tool, organizeVars, splitVars, selectedLanguages, currentPage, totalPages,
                 pdfFiles, isProcessing, compressionMode, compressionSettings, alertMsg,
                 pc, i, closure, invoked, settled, call>>

\* handleLanguageToggle(lang.code); the buttons are disabled while isProcessing.
HandleLanguageToggle ==
  /\ tool = "ocr" /\ Running /\ ~isProcessing
  /\ \E langCode \in Language :
       selectedLanguages' = ToggleLanguage(selectedLanguages, langCode)
  /\ UNCHANGED <<tool, organizeVars, splitVars, file, progress, extractedText, error,
                 currentPage, totalPages, pdfFiles, isProcessing, compressionMode,
                 compressionSettings, alertMsg, downloads, pc, i, closure, invoked,
                 settled, call>>

\* extractTextFromPDF, from the click to `await createWorker(...)`.
ExtractTextFromPDF_Start ==
  /\ tool = "ocr" /\ Running /\ ~isProcessing /\ pc = "idle"
  /\ IF ~file.present
       THEN UNCHANGED <<isProcessing, error, progress, extractedText, currentPage,
                        totalPages, closure, pc, call, downloads>>
       ELSE /\ isProcessing' = TRUE
            /\ error' = NoError
            /\ progress' = 0
            /\ extractedText' = <<>>
            /\ currentPage' = 0
            /\ totalPages' = 0
            /\ closure' = [file |-> file, selectedLanguages |-> selectedLanguages]
            /\ pc' = "createWorker"
            /\ call' = OcrCall
            /\ downloads' = <<>>
  /\ UNCHANGED <<tool, organizeVars, splitVars, file, selectedLanguages, pdfFiles,
                 compressionMode, compressionSettings, alertMsg, i, invoked, settled>>

\* await createWorker(selectedLanguages.join('+'), 1, {logger}); a throw
\* lands in the catch, where workerRef.current is still null.
ExtractTextFromPDF_CreateWorker ==
  /\ tool = "ocr" /\ Running /\ pc = "createWorker"
  /\ \E ok \in BOOLEAN :
       IF ok
         THEN /\ call' = [call EXCEPT !.worker = closure.selectedLanguages]
              /\ pc' = "load"
              /\ error' = error
         ELSE /\ error' = "Failed to extract text from PDF"
              /\ pc' = "finally"
              /\ call' = call
  /\ UNCHANGED <<tool, organizeVars, splitVars, file, selectedLanguages, progress,
                 extractedText, currentPage, totalPages, pdfFiles, isProcessing,
                 compressionMode, compressionSettings, alertMsg, downloads, i, closure,
                 invoked, settled>>

\* await file.arrayBuffer(); await getDocument(...).promise;
\* setTotalPages(pdf.numPages); the loop head setCurrentPage(1).  A file that
\* does not load lands in the catch, which terminates the worker.
ExtractTextFromPDF_Load ==
  /\ tool = "ocr" /\ Running /\ pc = "load"
  /\ IF closure.file.valid
       THEN /\ totalPages' = closure.file.numPages
            /\ currentPage' = 1
            /\ call' = [call EXCEPT !.numPages = closure.file.numPages,
                                    !.pageNum = 1, !.step = "getPage"]
            /\ pc' = "page"
            /\ error' = error
       ELSE /\ error' = "Failed to extract text from PDF"
            /\ pc' = "finally"
            /\ UNCHANGED <<totalPages, currentPage, call>>
  /\ UNCHANGED <<tool, organizeVars, splitVars, file, selectedLanguages, progress,
                 extractedText, pdfFiles, isProcessing, compressionMode,
                 compressionSettings, alertMsg, downloads, i, closure, invoked, settled>>

\* await pdf.getPage(pageNum), then await page.render(...).promise: a throw
\* of either lands in the catch.
ExtractTextFromPDF_Render ==
  /\ tool = "ocr" /\ Running /\ pc = "page" /\ call.step \in {"getPage", "render"}
  /\ \E ok \in BOOLEAN :
       IF ok
         THEN /\ call' = [call EXCEPT !.step = IF call.step = "getPage"
                                                 THEN "render" ELSE "recognize"]
              /\ UNCHANGED <<error, pc>>
         ELSE /\ error' = "Failed to extract text from PDF"
              /\ pc' = "finally"
              /\ call' = call
  /\ UNCHANGED <<tool, organizeVars, splitVars, file, selectedLanguages, progress,
                 extractedText, currentPage, totalPages, pdfFiles, isProcessing,
                 compressionMode, compressionSettings, alertMsg, downloads, i, closure,
                 invoked, settled>>

\* The worker's logger, while it recognizes: setProgress(m.progress * 100).
LoggerProgress == {0, 50, 100}

Ocr_Logger ==
  /\ tool = "ocr" /\ Running /\ pc = "page" /\ call.step = "recognize"
  /\ \E p \in LoggerProgress : progress' = p
  /\ UNCHANGED <<tool, organizeVars, splitVars, file, selectedLanguages, extractedText,
                 error, currentPage, totalPages, pdfFiles, isProcessing, compressionMode,
                 compressionSettings, alertMsg, downloads, pc, i, closure, invoked,
                 settled, call>>

\* await processImage(imageData, worker), which calls worker.recognize once;
\* then the section is appended, the progress set, and the loop goes to the
\* next page (setCurrentPage) or ends with setExtractedText(fullText.trim()),
\* which keeps the sections as they are.
ExtractTextFromPDF_Recognize ==
  /\ tool = "ocr" /\ Running /\ pc = "page" /\ call.step = "recognize"
  /\ \E ok \in BOOLEAN :
       LET recognized == Append(call.recognized, call.pageNum)
           fullText == Ocr_AppendSection(call.fullText, call.pageNum)
       IN  IF ~ok
             THEN /\ error' = "Failed to extract text from PDF"
                  /\ pc' = "finally"
                  /\ call' = [call EXCEPT !.recognized = recognized]
                  /\ UNCHANGED <<progress, currentPage, extractedText>>
             ELSE /\ progress' = OverallProgress(call.pageNum, call.numPages)
                  /\ error' = error
                  /\ IF call.pageNum + 1 <= call.numPages
                       THEN /\ call' = [call EXCEPT !.recognized = recognized,
                                                    !.fullText = fullText,
                                                    !.pageNum = call.pageNum + 1,
                                                    !.step = "getPage"]
                            /\ currentPage' = call.pageNum + 1
                            /\ UNCHANGED <<pc, extractedText>>
                       ELSE /\ call' = [call EXCEPT !.recognized = recognized,
                                                    !.fullText = fullText,
                                                    !.pageNum = call.pageNum + 1,
                                                    !.step = "none"]
                            /\ extractedText' = fullText
                            /\ pc' = "terminate"
                            /\ currentPage' = currentPage
  /\ UNCHANGED <<tool, organizeVars, splitVars, file, selectedLanguages, totalPages,
                 pdfFiles, isProcessing, compressionMode, compressionSettings, alertMsg,
                 downloads, i, closure, invoked, settled>>

\* await worker.terminate() after the loop; a throw lands in the catch.
ExtractTextFromPDF_Terminate ==
  /\ tool = "ocr" /\ Running /\ pc = "terminate"
  /\ \E ok \in BOOLEAN :
       error' = IF ok THEN error ELSE "Failed to extract text from PDF"
  /\ pc' = "finally"
  /\ UNCHANGED <<tool, organizeVars, splitVars, file, selectedLanguages, progress,
                 extractedText, currentPage, totalPages, pdfFiles, isProcessing,
                 compressionMode, compressionSettings, alertMsg, downloads, i, closure,
                 invoked, settled, call>>

\* finally { setIsProcessing(false); setProgress(0) }
ExtractTextFromPDF_Finally ==
  /\ tool = "ocr" /\ Running /\ pc = "finally"
  /\ isProcessing' = FALSE
  /\ progress' = 0
  /\ pc' = "idle"
  /\ closure' = NoClosure
  /\ call' = IdleCall
  /\ UNCHANGED <<tool, organizeVars, splitVars, file, selectedLanguages, extractedText,
                 error, currentPage, totalPages, pdfFiles, compressionMode,
                 compressionSettings, alertMsg, downloads, i, invoked, settled>>

\* downloadText: the extracted text is downloaded as `<name>_ocr.txt`.
DownloadText ==
  /\ tool = "ocr" /\ Running /\ ~isProcessing
  /\ extractedText # <<>>
  /\ downloads' = <<extractedText>>
  /\ UNCHANGED <<tool, organizeVars, splitVars, ocrVars, pdfFiles, isProcessing,
                 compressionMode, compressionSettings, alertMsg, pc, i, closure, invoked,
                 settled, call>>

\* The user closes the alert box.
DismissAlert ==
  /\ alertMsg # "none"
  /\ alertMsg' = "none"
  /\ UNCHANGED <<splitVars, routeVars, pdfFiles, isProcessing, compressionMode, compressionSettings,
                 downloads, pc, i, closure, invoked, settled, call>>

----------------------------------------------------------------------------
(* Specifications *)

Tools == {"driver", "compress", "word", "rotate", "merge", "split", "ocr", "organize"}

Init ==
  /\ tool \in Tools
  /\ pdfFiles = <<>>
  /\ isProcessing = FALSE
  /\ compressionMode = "normal"
  /\ compressionSettings = CompressionSettingsTable
  /\ alertMsg = "none"
  /\ downloads = <<>>
  /\ pc = "idle"
  /\ i = 0
  /\ closure = NoClosure
  /\ invoked = <<>>
  /\ settled = <<>>
  /\ call = IdleCall
  /\ pdfFile = NoPdfFile
  /\ splitMode = "all"
  /\ selectedPages = <<>>
  /\ pageRanges = InitialRanges
  /\ file = NoFile
  /\ selectedLanguages = <<"eng">>
  /\ progress = 0
  /\ extractedText = <<>>
  /\ error = NoError
  /\ currentPage = 0
  /\ totalPages = 0
  /\ draggedPageId = NoPage
  /\ dragOverPageId = NoPage

\* compressPDF under a direct caller.
NextDriver ==
  \/ Driver_Call
  \/ CompressPDF_Load
  \/ CompressPDF_GetPage
  \/ CompressPDF_Render
  \/ CompressPDF_Encode
  \/ CompressPDF_Embed
  \/ CompressPDF_Save
  \/ Driver_Return

InitDriver == Init /\ tool = "driver"

SpecDriver == InitDriver /\ [][NextDriver]_vars

\* The compress route.
NextCompress ==
  \/ Compress_AddFiles
  \/ Compress_RemoveFile
  \/ Compress_ClearAll
  \/ Compress_SetCompressionMode
  \/ CompressPDFs_Start
  \/ CompressPDFs_Loop
  \/ CompressPDFs_Resolved
  \/ CompressPDFs_Rejected
  \/ CompressPDF_Load
  \/ CompressPDF_GetPage
  \/ CompressPDF_Render
  \/ CompressPDF_Encode
  \/ CompressPDF_Embed
  \/ CompressPDF_Save
  \/ DismissAlert

InitCompress == Init /\ tool = "compress"

SpecCompress == InitCompress /\ [][NextCompress]_vars

\* The PDF-to-Word route.
NextWord ==
  \/ Word_AddFiles
  \/ Word_RemoveFile
  \/ Word_ClearAll
  \/ ConvertFiles_Start
  \/ ConvertFiles_Loop
  \/ ConvertPdfToHtml_Load
  \/ ConvertPdfToHtml_GetPage
  \/ ConvertPdfToHtml_Render
  \/ ConvertFiles_Html
  \/ ConvertHtmlToDocx_Pack
  \/ ConvertFiles_Resolved
  \/ ConvertFiles_Rejected
  \/ DismissAlert

InitWord == Init /\ tool = "word"

SpecWord == InitWord /\ [][NextWord]_vars

\* The rotate route.
NextRotate ==
  \/ Rotate_AddFiles
  \/ Rotate_RemoveFile
  \/ Rotate_ClearAll
  \/ RotateFile
  \/ RotateAllFiles
  \/ ResetRotation
  \/ ResetAllRotations
  \/ ProcessRotations_Start
  \/ ProcessRotations_Loop
  \/ RotatePDF_Load
  \/ RotatePDF_Save
  \/ ProcessRotations_Resolved
  \/ ProcessRotations_Rejected
  \/ DismissAlert

InitRotate == Init /\ tool = "rotate"

SpecRotate == InitRotate /\ [][NextRotate]_vars

\* The merge route.
NextMerge ==
  \/ Merge_AddFiles
  \/ Merge_RemoveFile
  \/ Merge_ClearAll
  \/ MoveFile
  \/ MergePDFs_Start
  \/ MergePDFs_File
  \/ MergePDFs_Save
  \/ MergePDFs_Finally
  \/ DismissAlert

InitMerge == Init /\ tool = "merge"

SpecMerge == InitMerge /\ [][NextMerge]_vars

\* The split route.
NextSplit ==
  \/ Split_AddFile
  \/ Split_RemoveFile
  \/ SetSplitMode
  \/ TogglePage
  \/ AddRange
  \/ UpdateRange
  \/ RemoveRange
  \/ SplitPDF_Start
  \/ SplitPDF_Load
  \/ SplitPDF_Output
  \/ SplitPDF_Done
  \/ SplitPDF_Finally
  \/ DismissAlert

InitSplit == Init /\ tool = "split"

SpecSplit == InitSplit /\ [][NextSplit]_vars

\* The three routes that process a list of documents one by one.
NextBatch ==
  \/ Compress_AddFiles
  \/ Compress_RemoveFile
  \/ Compress_ClearAll
  \/ Compress_SetCompressionMode
  \/ CompressPDFs_Start
  \/ CompressPDFs_Loop
  \/ CompressPDFs_Resolved
  \/ CompressPDFs_Rejected
  \/ CompressPDF_Load
  \/ CompressPDF_GetPage
  \/ CompressPDF_Render
  \/ CompressPDF_Encode
  \/ CompressPDF_Embed
  \/ CompressPDF_Save
  \/ Word_AddFiles
  \/ Word_RemoveFile
  \/ Word_ClearAll
  \/ ConvertFiles_Start
  \/ ConvertFiles_Loop
  \/ ConvertPdfToHtml_Load
  \/ ConvertPdfToHtml_GetPage
  \/ ConvertPdfToHtml_Render
  \/ ConvertFiles_Html
  \/ ConvertHtmlToDocx_Pack
  \/ ConvertFiles_Resolved
  \/ ConvertFiles_Rejected
  \/ Rotate_AddFiles
  \/ Rotate_RemoveFile
  \/ Rotate_ClearAll
  \/ RotateFile
  \/ RotateAllFiles
  \/ ResetRotation
  \/ ResetAllRotations
  \/ ProcessRotations_Start
  \/ ProcessRotations_Loop
  \/ RotatePDF_Load
  \/ RotatePDF_Save
  \/ ProcessRotations_Resolved
  \/ ProcessRotations_Rejected
  \/ DismissAlert

InitBatch == Init /\ tool \in {"compress", "word", "rotate"}

SpecBatch == InitBatch /\ [][NextBatch]_vars

\* The three routes whose action needs a selection: compress, merge, split.
NextSelect ==
  \/ Compress_AddFiles
  \/ Compress_RemoveFile
  \/ Compress_ClearAll
  \/ Compress_SetCompressionMode
  \/ CompressPDFs_Start
  \/ CompressPDFs_Loop
  \/ CompressPDFs_Resolved
  \/ CompressPDFs_Rejected
  \/ CompressPDF_Load
  \/ CompressPDF_GetPage
  \/ CompressPDF_Render
  \/ CompressPDF_Encode
  \/ CompressPDF_Embed
  \/ CompressPDF_Save
  \/ Merge_AddFiles
  \/ Merge_RemoveFile
  \/ Merge_ClearAll
  \/ MoveFile
  \/ MergePDFs_Start
  \/ MergePDFs_File
  \/ MergePDFs_Save
  \/ MergePDFs_Finally
  \/ Split_AddFile
  \/ Split_RemoveFile
  \/ SetSplitMode
  \/ TogglePage
  \/ AddRange
  \/ UpdateRange
  \/ RemoveRange
  \/ SplitPDF_Start
  \/ SplitPDF_Load
  \/ SplitPDF_Output
  \/ SplitPDF_Done
  \/ SplitPDF_Finally
  \/ DismissAlert

InitSelect == Init /\ tool \in {"compress", "merge", "split"}

SpecSelect == InitSelect /\ [][NextSelect]_vars

\* compressPDF under a direct caller and under the compress route.
NextPipeline ==
  \/ Driver_Call
  \/ Driver_Return
  \/ Compress_AddFiles
  \/ Compress_RemoveFile
  \/ Compress_ClearAll
  \/ Compress_SetCompressionMode
  \/ CompressPDFs_Start
  \/ CompressPDFs_Loop
  \/ CompressPDFs_Resolved
  \/ CompressPDFs_Rejected
  \/ CompressPDF_Load
  \/ CompressPDF_GetPage
  \/ CompressPDF_Render
  \/ CompressPDF_Encode
  \/ CompressPDF_Embed
  \/ CompressPDF_Save
  \/ DismissAlert

InitPipeline == Init /\ tool \in {"driver", "compress"}

SpecPipeline == InitPipeline /\ [][NextPipeline]_vars

\* The OCR route.
NextOcr ==
  \/ Ocr_HandleFileChange
  \/ HandleLanguageToggle
  \/ ExtractTextFromPDF_Start
  \/ ExtractTextFromPDF_CreateWorker
  \/ ExtractTextFromPDF_Load
  \/ ExtractTextFromPDF_Render
  \/ Ocr_Logger
  \/ ExtractTextFromPDF_Recognize
  \/ ExtractTextFromPDF_Terminate
  \/ ExtractTextFromPDF_Finally
  \/ DownloadText

InitOcr == Init /\ tool = "ocr"

SpecOcr == InitOcr /\ [][NextOcr]_vars

\* The organize route.
NextOrganize ==
  \/ LoadPdfFile_Start
  \/ LoadPdfFile_Pages
  \/ HandleAddPages
  \/ RotatePage
  \/ DeletePage
  \/ RestorePage
  \/ HandlePageDragStart
  \/ HandlePageDragOver
  \/ HandlePageDrop
  \/ ClosePdfFile
  \/ ProcessPDF_Start
  \/ ProcessPDF_Load
  \/ ProcessPDF_Copy
  \/ ProcessPDF_Save
  \/ ProcessPDF_Finally
  \/ DismissAlert

InitOrganize == Init /\ tool = "organize"

SpecOrganize == InitOrganize /\ [][NextOrganize]_vars

\* The organize route without its rotate buttons: which pages are saved, and
\* in which order, does not depend on their rotation.
NextSave ==
  \/ LoadPdfFile_Start
  \/ LoadPdfFile_Pages
  \/ HandleAddPages
  \/ DeletePage
  \/ RestorePage
  \/ HandlePageDragStart
  \/ HandlePageDragOver
  \/ HandlePageDrop
  \/ ClosePdfFile
  \/ ProcessPDF_Start
  \/ ProcessPDF_Load
  \/ ProcessPDF_Copy
  \/ ProcessPDF_Save
  \/ ProcessPDF_Finally
  \/ DismissAlert

InitSave == Init /\ tool = "organize"

SpecSave == InitSave /\ [][NextSave]_vars

\* The organize route's page list, without rotate buttons and save.
NextDrag ==
  \/ LoadPdfFile_Start
  \/ LoadPdfFile_Pages
  \/ HandleAddPages
  \/ DeletePage
  \/ RestorePage
  \/ HandlePageDragStart
  \/ HandlePageDragOver
  \/ HandlePageDrop
  \/ ClosePdfFile
  \/ DismissAlert

InitDrag == Init /\ tool = "organize"

SpecDrag == InitDrag /\ [][NextDrag]_vars

\* The four routes whose handler sets isProcessing: compress, merge, split
\* and OCR, with the controls that fill, empty and start them and that
\* choose what the split is of.  The preset, the order of the merge list, the
\* bounds of the ranges, the OCR languages and the text download, none of
\* which a handler's course depends on, are left as they start.
NextLive ==
  \/ Compress_AddFiles
  \/ Compress_RemoveFile
  \/ Compress_ClearAll
  \/ CompressPDFs_Start
  \/ CompressPDFs_Loop
  \/ CompressPDFs_Resolved
  \/ CompressPDFs_Rejected
  \/ CompressPDF_Load
  \/ CompressPDF_GetPage
  \/ CompressPDF_Render
  \/ CompressPDF_Encode
  \/ CompressPDF_Embed
  \/ CompressPDF_Save
  \/ Merge_AddFiles
  \/ Merge_RemoveFile
  \/ Merge_ClearAll
  \/ MergePDFs_Start
  \/ MergePDFs_File
  \/ MergePDFs_Save
  \/ MergePDFs_Finally
  \/ Split_AddFile
  \/ Split_RemoveFile
  \/ SetSplitMode
  \/ TogglePage
  \/ SplitPDF_Start
  \/ SplitPDF_Load
  \/ SplitPDF_Output
  \/ SplitPDF_Done
  \/ SplitPDF_Finally
  \/ Ocr_HandleFileChange
  \/ ExtractTextFromPDF_Start
  \/ ExtractTextFromPDF_CreateWorker
  \/ ExtractTextFromPDF_Load
  \/ ExtractTextFromPDF_Render
  \/ Ocr_Logger
  \/ ExtractTextFromPDF_Recognize
  \/ ExtractTextFromPDF_Terminate
  \/ ExtractTextFromPDF_Finally
  \/ DismissAlert

InitLive == Init /\ tool \in {"compress", "merge", "split", "ocr"}

\* What goes on by itself once a handler runs: the continuation of the
\* handler after each await (the promises of the libraries settle), and the
\* alert box, which the user closes.
Progress ==
  \/ CompressPDFs_Loop
  \/ CompressPDFs_Resolved
  \/ CompressPDFs_Rejected
  \/ CompressPDF_Load
  \/ CompressPDF_GetPage
  \/ CompressPDF_Render
  \/ CompressPDF_Encode
  \/ CompressPDF_Embed
  \/ CompressPDF_Save
  \/ MergePDFs_File
  \/ MergePDFs_Save
  \/ MergePDFs_Finally
  \/ SplitPDF_Load
  \/ SplitPDF_Output
  \/ SplitPDF_Done
  \/ SplitPDF_Finally
  \/ ExtractTextFromPDF_CreateWorker
  \/ ExtractTextFromPDF_Load
  \/ ExtractTextFromPDF_Render
  \/ ExtractTextFromPDF_Recognize
  \/ ExtractTextFromPDF_Terminate
  \/ ExtractTextFromPDF_Finally
  \/ DismissAlert

SpecLive == InitLive /\ [][NextLive]_vars /\ WF_vars(Progress)

\* The two routes with rotate buttons: the rotate route, and the organize
\* route's page list without drag and save.
NextRotation ==
  \/ Rotate_AddFiles
  \/ Rotate_RemoveFile
  \/ Rotate_ClearAll
  \/ RotateFile
  \/ RotateAllFiles
  \/ ResetRotation
  \/ ResetAllRotations
  \/ ProcessRotations_Start
  \/ ProcessRotations_Loop
  \/ RotatePDF_Load
  \/ RotatePDF_Save
  \/ ProcessRotations_Resolved
  \/ ProcessRotations_Rejected
  \/ LoadPdfFile_Start
  \/ LoadPdfFile_Pages
  \/ HandleAddPages
  \/ RotatePage
  \/ DeletePage
  \/ RestorePage
  \/ ClosePdfFile
  \/ DismissAlert

InitRotation == Init /\ tool \in {"rotate", "organize"}

SpecRotation == InitRotation /\ [][NextRotation]_vars

\* Every route.
Next ==
  \/ NextDriver
  \/ NextCompress
  \/ NextWord
  \/ NextRotate
  \/ NextMerge
  \/ NextSplit
  \/ NextOcr
  \/ NextOrganize

Spec == Init /\ [][Next]_vars

----------------------------------------------------------------------------
(* Properties of compressPDF (checked under SpecDriver) *)

\* The page indexes a sequence of output pages was made from.
Sources(doc) == [k \in 1..Len(doc) |-> doc[k].src]

\* The pages whose processing threw (getPage, render, encode or embed), as
\* the catch logged them.
FailedPages(c) == {p \in 1..c.totalPages : [page |-> p, origin |-> "page"] \in c.errors}

\* The pages at which the caller's callback threw, as the catch logged them.
CallbackThrows(c) ==
  {p \in 1..c.totalPages : [page |-> p, origin |-> "onProgress"] \in c.errors}

\* The elements of a set of numbers in ascending order.
Ascending(S) == SortedPages(S)

StrictlyIncreasing(seq) ==
  \A j, k \in 1..Len(seq) : j < k => seq[j][1] < seq[k][1]

\* The page loop of compressPDF is over: the save has begun or is done.
PagesDone(c) ==
  \/ c.pc \in {"save", "resolved"}
  \/ c.pc = "rejected" /\ c.pdfFile.valid

\* C1: when compressPDF has gone through the N pages of a document and K of
\* them failed, the output holds exactly the N - K pages that did not fail,
\* in ascending page order, with no blank page and no reordering.
C1_OutputIsTheSucceededPages ==
  (tool = "driver" /\ PagesDone(call)) =>
    /\ Sources(call.newPdfDoc) =
         Ascending((1..call.totalPages) \ FailedPages(call))
    /\ Len(call.newPdfDoc) = call.totalPages - Cardinality(FailedPages(call))
    /\ \A k \in 1..Len(call.newPdfDoc) : call.newPdfDoc[k].format = "jpeg"

\* A three-page document whose second page failed resolved with pages 1, 3.
C1_Witness ==
  /\ tool = "driver" /\ call.pc = "resolved"
  /\ call.totalPages = 3
  /\ FailedPages(call) = {2}
  /\ Sources(call.newPdfDoc) = <<1, 3>>

\* C4: compressPDF on bytes that cannot be loaded rejects; no page is
\* processed, the callback is never called, no output is written and the
\* load is attempted once.
C4_UnloadableRejects ==
  (tool = "driver" /\ call.pc # "idle" /\ ~call.pdfFile.valid) =>
    /\ call.pc \in {"load", "rejected"}
    /\ call.loads = (IF call.pc = "rejected" THEN 1 ELSE 0)
    /\ call.pageNum = 0
    /\ call.totalPages = 0
    /\ call.newPdfDoc = <<>>
    /\ call.progress = <<>>
    /\ call.errors = {}

\* The call on unloadable bytes has rejected after its one load.
C4_Witness ==
  /\ tool = "driver" /\ call.pc = "rejected"
  /\ ~call.pdfFile.valid
  /\ call.loads = 1
  /\ call.progress = <<>>

\* C5, as stated: on a successful compressPDF of a document of N pages the
\* callback has been called exactly N times, with the indexes 1..N and total N.
C5_ExactlyNReports ==
  (tool = "driver" /\ call.pc = "resolved") =>
    call.progress = [k \in 1..call.totalPages |-> <<k, call.totalPages>>]

\* C5, amended: once the page loop is over the callback has been called
\* exactly once for every page written to the output (N - K calls when K
\* pages failed), with that page's index, in strictly increasing order and
\* with total N; when no page failed these are the N indexes 1..N.
C5_OneReportPerWrittenPage ==
  (tool = "driver" /\ PagesDone(call)) =>
    /\ Len(call.progress) = call.totalPages - Cardinality(FailedPages(call))
    /\ \A k \in 1..Len(call.progress) :
         /\ call.progress[k][1] = call.newPdfDoc[k].src
         /\ call.progress[k][1] \in 1..call.totalPages
         /\ call.progress[k][2] = call.totalPages
    /\ StrictlyIncreasing(call.progress)
    /\ FailedPages(call) = {} =>
         call.progress = [k \in 1..call.totalPages |-> <<k, call.totalPages>>]

\* A three-page document resolved after two reports, its second page failed.
C5_Witness ==
  /\ tool = "driver" /\ call.pc = "resolved"
  /\ call.totalPages = 3
  /\ call.progress = <<<<1, 3>>, <<3, 3>>>>

\* C6: the indexes the callback is called with are strictly increasing, and
\* the callback is not called once the save has begun: from then on the
\* reports of the call stay as they are until its frame is gone.
C6_ReportsStopAtSave ==
  /\ [](tool = "driver" => StrictlyIncreasing(call.progress))
  /\ [][(tool = "driver" /\ call.pc \in {"save", "resolved", "rejected"}
           /\ call'.pc # "idle")
          => call'.progress = call.progress]_vars

\* A call resolved after at least two reports.
C6_Witness ==
  /\ tool = "driver" /\ call.pc = "resolved"
  /\ Len(call.progress) >= 2
  /\ call.throwsAt = {}

\* The callback has thrown at some page of the running call.
CallbackThrew(c) ==
  \E k \in 1..Len(c.progress) : c.progress[k][1] \in c.throwsAt

\* C7, as stated: a throw of the callback is not caught by compressPDF, so
\* the call is rejected by it.
C7_CallbackThrowRejects ==
  (tool = "driver" /\ CallbackThrew(call)) => call.pc = "rejected"

\* C7, amended: a throw of the callback is caught by the catch of the page
\* it was called for: it is logged, the page stays in the output, the loop
\* goes on with the next page, and compressPDF rejects only when the load or
\* the save fails.
C7_CallbackThrowIsCaught ==
  tool = "driver" =>
    /\ \A k \in 1..Len(call.progress) :
         call.progress[k][1] \in call.throwsAt =>
           /\ call.progress[k][1] \in CallbackThrows(call)
           /\ \E j \in 1..Len(call.newPdfDoc) :
                call.newPdfDoc[j].src = call.progress[k][1]
    /\ call.pc = "rejected" =>
         \/ ~call.pdfFile.valid
         \/ call.pageNum = call.totalPages + 1
    /\ call.pc = "page" => call.pageNum \in 1..call.totalPages

\* A call whose callback threw at its first page resolved with every page.
C7_Witness ==
  /\ tool = "driver" /\ call.pc = "resolved"
  /\ call.totalPages = 2
  /\ 1 \in CallbackThrows(call)
  /\ Sources(call.newPdfDoc) = <<1, 2>>

\* C8: every preset has a scale in (0, 1] and a quality in [0, 1] (in
\* hundredths); two distinct presets differ in scale and in quality; a preset
\* of stronger compression has the lower scale and the lower quality;
\* `extreme` is scale 0.5, quality 0.3, jpeg; and a page rendered under a
\* preset carries that preset's values.
C8_PresetTable ==
  /\ DOMAIN compressionSettings = CompressionMode
  /\ \A m \in CompressionMode :
       /\ compressionSettings[m].scale \in 1..100
       /\ compressionSettings[m].imageQuality \in 0..100
  /\ \A m, n \in CompressionMode :
       /\ m # n => /\ compressionSettings[m].scale # compressionSettings[n].scale
                   /\ compressionSettings[m].imageQuality #
                        compressionSettings[n].imageQuality
       /\ CompressionRank[m] > CompressionRank[n] =>
            /\ compressionSettings[m].scale < compressionSettings[n].scale
            /\ compressionSettings[m].imageQuality <
                 compressionSettings[n].imageQuality
  /\ compressionSettings["extreme"] =
       [imageQuality |-> 30, scale |-> 50, format |-> "jpeg"]
  /\ (tool = "driver" /\ call.pc # "idle") =>
       \A k \in 1..Len(call.newPdfDoc) :
         /\ call.newPdfDoc[k].scale = compressionSettings[call.mode].scale
         /\ call.newPdfDoc[k].quality = compressionSettings[call.mode].imageQuality
         /\ call.newPdfDoc[k].format = compressionSettings[call.mode].format

\* A page was written under `extreme` at half scale and quality 0.3.
C8_Witness ==
  /\ tool = "driver" /\ call.mode = "extreme"
  /\ Len(call.newPdfDoc) >= 1
  /\ call.newPdfDoc[1].scale = 50
  /\ call.newPdfDoc[1].quality = 30

----------------------------------------------------------------------------
(* Properties of the batch routes *)

BatchTools == {"compress", "word", "rotate"}

Range(seq) == {seq[k] : k \in 1..Len(seq)}

\* The running batch handler has gone through its whole list.
BatchDone ==
  isProcessing /\ pc = "loop" /\ i > Len(closure.pdfFiles)

\* The rotate route does not hand a file with rotation 0 to rotatePDF.
Skipped(k) == tool = "rotate" /\ closure.pdfFiles[k].rotation = 0

\* C2: in a batch of the compress, rotate and PDF-to-Word routes every
\* document is handed to its worker whatever became of the ones before it,
\* and every document the handler is past has the status of its own outcome:
\* 'completed' when its worker resolved (or the rotate route skipped it),
\* 'error' when its worker rejected; the handler ends only after the last one.
C2_DocumentsAreIndependent ==
  (tool \in BatchTools /\ isProcessing) =>
    /\ pc \in {"loop", "await"}
    /\ i \in 1..(Len(closure.pdfFiles) + 1)
    /\ Len(pdfFiles) >= Len(closure.pdfFiles)
    /\ \A k \in 1..Len(closure.pdfFiles) :
         k < i =>
           IF Skipped(k)
             THEN /\ pdfFiles[k].status = "completed"
                  /\ k \notin Range(invoked)
             ELSE /\ k \in Range(invoked)
                  /\ k \in DOMAIN settled
                  /\ pdfFiles[k].status =
                       (IF settled[k] = "resolved" THEN "completed" ELSE "error")
                  /\ tool \in {"compress", "rotate"} =>
                       (k \in Range(downloads) <=> settled[k] = "resolved")

\* A batch of two whose first document failed and whose second completed.
C2_Witness ==
  /\ tool \in BatchTools /\ BatchDone
  /\ Len(closure.pdfFiles) = 2
  /\ DOMAIN settled = {1, 2}
  /\ settled[1] = "rejected" /\ pdfFiles[1].status = "error"
  /\ settled[2] = "resolved" /\ pdfFiles[2].status = "completed"

\* C3: in a compress batch a document whose compressPDF rejected ends
\* 'error' and is not downloaded, and compressPDF is called exactly once for
\* each document of the run, in list order.
C3_FailedDocumentNotRetried ==
  tool = "compress" =>
    /\ invoked = [k \in 1..Len(invoked) |-> k]
    /\ Len(invoked) <= Len(closure.pdfFiles)
    /\ BatchDone => Len(invoked) = Len(closure.pdfFiles)
    /\ \A k \in DOMAIN settled :
         settled[k] = "rejected" =>
           /\ k \notin Range(downloads)
           /\ k < i => pdfFiles[k].status = "error"

\* A compress batch is over whose second document rejected.
C3_Witness ==
  /\ tool = "compress" /\ BatchDone
  /\ Len(closure.pdfFiles) = 2
  /\ DOMAIN settled = {1, 2}
  /\ settled[2] = "rejected"
  /\ pdfFiles[2].status = "error"
  /\ invoked = <<1, 2>>
  /\ downloads = <<1>>

\* C9: one preset is used per conversion and per batch: the mode cannot
\* change while isProcessing, every call of a batch runs with the mode
\* selected when the batch started, every page of a call is rendered and
\* encoded with that preset's values, and the table is never changed.
C9_OnePresetPerBatch ==
  tool = "compress" =>
    /\ compressionSettings = CompressionSettingsTable
    /\ isProcessing => compressionMode = closure.compressionMode
    /\ call.pc # "idle" =>
         /\ call.mode = closure.compressionMode
         /\ call.settings = compressionSettings[call.mode]
         /\ call.viewport \in {0, call.settings.scale}
         /\ \A k \in 1..Len(call.newPdfDoc) :
              /\ call.newPdfDoc[k].scale = call.settings.scale
              /\ call.newPdfDoc[k].quality = call.settings.imageQuality
              /\ call.newPdfDoc[k].format = call.settings.format

\* The second document of a batch started under `extreme` has a page written.
C9_Witness ==
  /\ tool = "compress" /\ isProcessing /\ i = 2
  /\ closure.compressionMode = "extreme"
  /\ call.pc = "page"
  /\ Len(call.newPdfDoc) = 1
  /\ call.newPdfDoc[1].scale = 50

\* C10: the action of a route called without a valid selection (compress
\* with an empty list, merge with fewer than two files, split with no file)
\* shows its alert in the same step; isProcessing does not become true, no
\* file changes, no worker is started and nothing is downloaded.
C10_InvalidSelectionIsRefused ==
  [][(\/ CompressPDFs_Start /\ Len(pdfFiles) = 0
      \/ MergePDFs_Start /\ Len(pdfFiles) < 2
      \/ SplitPDF_Start /\ ~pdfFile.present)
       => /\ alertMsg = "none" /\ alertMsg' # "none"
          /\ ~isProcessing /\ ~isProcessing'
          /\ pc' = "idle"
          /\ UNCHANGED <<pdfFiles, pdfFile, downloads, call, invoked, settled>>]_vars

\* The merge route shows its alert with a single file listed.
C10_Witness ==
  /\ tool = "merge"
  /\ alertMsg = "Please select at least 2 PDF files to merge"
  /\ Len(pdfFiles) = 1
  /\ ~isProcessing /\ downloads = <<>>

----------------------------------------------------------------------------
(* Properties of the split route *)

\* A page range that names pages of the document, first page first.
ValidRange(range, pageCount) ==
  /\ range.start >= 1
  /\ range.end <= pageCount
  /\ range.start <= range.end

\* C11: a split in 'ranges' mode with an invalid range (start > end, or a
\* bound outside 1..pageCount) creates and downloads no output for that
\* range: every output of a running split comes from a valid range.
C11_InvalidRangeGivesNoOutput ==
  (tool = "split" /\ isProcessing /\ closure.splitMode = "ranges") =>
    \A k \in 1..Len(downloads) :
      ValidRange(closure.pageRanges[k], closure.pdfFile.pageCount)

----------------------------------------------------------------------------
(* Order of processing *)

\* The listed documents that have status 'processing'.
Processing == {k \in 1..Len(pdfFiles) : pdfFiles[k].status = "processing"}

\* C12: processing is strictly sequential.  While compressPDF is at page p
\* every page before p has finished (it is in the output) or failed (it is
\* logged) and no page after p has been touched; and in a compress batch at
\* most one document has status 'processing', the one the handler awaits.
C12_StrictlySequential ==
  /\ (tool \in {"driver", "compress"} /\ call.pc = "page") =>
       /\ call.pageNum \in 1..call.totalPages
       /\ \A q \in 1..call.totalPages :
            /\ q < call.pageNum =>
                 \/ q \in Range(Sources(call.newPdfDoc))
                 \/ q \in FailedPages(call)
            /\ q > call.pageNum =>
                 /\ q \notin Range(Sources(call.newPdfDoc))
                 /\ q \notin FailedPages(call)
                 /\ \A k \in 1..Len(call.progress) : call.progress[k][1] # q
            /\ (q = call.pageNum /\ call.step # "none") =>
                 /\ q \notin Range(Sources(call.newPdfDoc))
                 /\ q \notin FailedPages(call)
  /\ tool = "compress" =>
       /\ Cardinality(Processing) <= 1
       /\ pc = "await" => Processing = {i}
       /\ pc # "await" => Processing = {} /\ call.pc = "idle"

\* The second document of a batch is at its second page: the first document
\* is done and the first page is in the output.
C12_Witness ==
  /\ tool = "compress" /\ pc = "await" /\ i = 2
  /\ pdfFiles[1].status = "completed"
  /\ pdfFiles[2].status = "processing"
  /\ call.pc = "page" /\ call.pageNum = 2 /\ call.step = "render"
  /\ Sources(call.newPdfDoc) = <<1>>

\* C13: in a compress batch the downloads are emitted in the order of the
\* submitted list: the downloaded documents are the resolved ones the
\* handler is past, in ascending list position.
C13_DownloadsInListOrder ==
  tool = "compress" =>
    /\ \A j, k \in 1..Len(downloads) : j < k => downloads[j] < downloads[k]
    /\ downloads =
         Ascending({k \in DOMAIN settled : settled[k] = "resolved" /\ k < i})

\* Both documents of a batch of two were downloaded, the first one first.
C13_Witness ==
  /\ tool = "compress" /\ BatchDone
  /\ Len(closure.pdfFiles) = 2
  /\ downloads = <<1, 2>>

----------------------------------------------------------------------------
(* Progress of a document in the compress route *)

\* The percentage the file row shows: {pdfFile.progress || 0}.
ShownProgress(listed) == IF listed.progress = NoProgress THEN 0 ELSE listed.progress

\* C14: the progress of a document is reset to zero when its processing
\* starts and does not decrease while it is processed: when compressPDF has
\* just been called the document shows 0, and while compressPDF is at page p
\* it shows at most the percentage of page p - 1.
C14_ProgressResetAndMonotone ==
  (tool = "compress" /\ pc = "await") =>
    /\ call.pc = "load" => ShownProgress(pdfFiles[i]) = 0
    /\ call.pc = "page" =>
         ShownProgress(pdfFiles[i]) <=
           ProgressPercent(call.pageNum - 1, call.totalPages)

----------------------------------------------------------------------------
(* Properties of the PDF-to-Word route *)

\* C15: in the PDF-to-Word conversion a page that fails to render is skipped
\* and the document goes on with its remaining pages: the conversion of a
\* document that loaded is never rejected from inside its page loop (only
\* after its last page, by the packing of the DOCX).
C15_WordPageFailureIsSkipped ==
  (tool = "word" /\ call.pc = "rejected" /\ call.pdfFile.valid) =>
    call.pageNum > call.numPages

----------------------------------------------------------------------------
(* Properties of the OCR route *)

\* The sections of pages 1..n in ascending order, each with its page's text.
Sections(n) == [k \in 1..n |-> [page |-> k, text |-> k]]

\* C16: the OCR route calls the recognizer exactly once per page, for the
\* pages 1..N in ascending order, and the extracted text holds the sections
\* of the pages in that order: the calls so far are always 1, 2, ..., once
\* each, never beyond the page the loop is at; when the loop is over they are
\* exactly 1..N and the text is the sections 1..N; and a text on display is
\* the sections 1..N of the selected file.
C16_RecognizerOncePerPage ==
  tool = "ocr" =>
    /\ pc # "idle" =>
         /\ call.recognized = [k \in 1..Len(call.recognized) |-> k]
         /\ call.fullText = Sections(Len(call.fullText))
         /\ pc = "page" =>
              /\ Len(call.recognized) = call.pageNum - 1
              /\ Len(call.fullText) = call.pageNum - 1
         /\ pc = "terminate" =>
              /\ call.recognized = [k \in 1..call.numPages |-> k]
              /\ extractedText = Sections(call.numPages)
    /\ extractedText # <<>> =>
         /\ file.present /\ file.valid
         /\ extractedText = Sections(file.numPages)

\* A two-page document has been recognized, page 1 then page 2.
C16_Witness ==
  /\ tool = "ocr" /\ pc = "terminate"
  /\ call.numPages = 2
  /\ call.recognized = <<1, 2>>
  /\ extractedText = Sections(2)

NoDuplicates(seq) == \A j, k \in 1..Len(seq) : j # k => seq[j] # seq[k]

\* C17: the selected languages are always a non-empty, duplicate-free
\* part of the catalog {eng, chi_sim, khm}; and from the current selection a
\* toggle of language l leaves the selection as it is when l is the only one
\* selected, removes exactly l when l is selected with others, and adds
\* exactly l when l is not selected.
C17_LanguageSelection ==
  tool = "ocr" =>
    /\ Len(selectedLanguages) >= 1
    /\ NoDuplicates(selectedLanguages)
    /\ Range(selectedLanguages) \subseteq Range(languages)
    /\ Range(languages) = {"eng", "chi_sim", "khm"}
    /\ \A l \in Range(languages) :
         LET toggled == ToggleLanguage(selectedLanguages, l)
         IN  /\ NoDuplicates(toggled)
             /\ IF selectedLanguages = <<l>>
                  THEN toggled = selectedLanguages
                  ELSE IF l \in Range(selectedLanguages)
                  THEN Range(toggled) = Range(selectedLanguages) \ {l}
                  ELSE Range(toggled) = Range(selectedLanguages) \cup {l}

\* khm was added, eng removed and added again.
C17_Witness ==
  /\ tool = "ocr"
  /\ selectedLanguages = <<"khm", "eng">>

----------------------------------------------------------------------------
(* Properties of the rotate route's batch *)

\* C18: in a batch of the rotate route a file with rotation 0 is skipped:
\* it is never handed to rotatePDF (no load, no change, no settlement), gives
\* no download, and is marked 'completed' once the loop has passed it; every
\* download belongs to a file with a rotation other than 0; and a batch runs
\* (isProcessing) only when some file of it has a rotation other than 0, so
\* with every rotation 0 the click leaves isProcessing false.
C18_UnrotatedFilesAreSkipped ==
  tool = "rotate" =>
    /\ pc # "idle" =>
         /\ \A k \in 1..Len(closure.pdfFiles) :
              closure.pdfFiles[k].rotation = 0 =>
                /\ k \notin Range(invoked)
                /\ k \notin DOMAIN settled
                /\ k \notin Range(downloads)
                /\ k < i => pdfFiles[k].status = "completed"
         /\ \A k \in Range(downloads) : closure.pdfFiles[k].rotation # 0
    /\ isProcessing =>
         \E k \in 1..Len(closure.pdfFiles) : closure.pdfFiles[k].rotation # 0
    /\ (pc = "idle" /\ Len(pdfFiles) > 0
          /\ \A k \in 1..Len(pdfFiles) : pdfFiles[k].rotation = 0) => ~isProcessing

\* A batch of an unrotated and a rotated file is through: the first was
\* skipped and marked, the second rotated and downloaded.
C18_Witness ==
  /\ tool = "rotate" /\ pc = "loop" /\ i = 3
  /\ Len(closure.pdfFiles) = 2
  /\ closure.pdfFiles[1].rotation = 0
  /\ closure.pdfFiles[2].rotation # 0
  /\ pdfFiles[1].status = "completed"
  /\ invoked = <<2>>
  /\ downloads = <<2>>

----------------------------------------------------------------------------
(* Properties of the organize route's save *)

\* The pages a save of the list is to give: the pages not marked deleted, in
\* list order, each with the rotation it got.
SavedPages(pages) ==
  LET kept == SelectSeq(pages, LAMBDA p : ~p.isDeleted)
  IN  [k \in 1..Len(kept) |->
         [pageNumber |-> kept[k].pageNumber, rotation |-> kept[k].rotation]]

\* The list the running save was started on has an active page that came
\* from Add Pages: its pageNumber is beyond the original document.
SavesAddedPage ==
  \E k \in 1..Len(closure.activePages) :
    closure.activePages[k].pageNumber > closure.pdfFile.file.numPages

\* C19: after Add Pages, Save Organized PDF succeeds and its document
\* holds the added pages at their list positions with the non-deleted
\* original pages: a save of a list with an active added page, once it is
\* through with save() not failing, has downloaded exactly the active pages
\* of the list in list order.
C19_SaveContainsAddedPages ==
  (/\ tool = "organize" /\ pc = "organize"
   /\ call.step \in {"done", "copyFailed"}
   /\ SavesAddedPage)
    => /\ call.step = "done"
       /\ downloads = <<SavedPages(closure.pdfFile.pages)>>

\* A page that is in the list before and after a step, deleted before and
\* not after, is at the place it had, and nothing else of the list changed.
RestoredInPlace ==
  (tool = "organize" /\ pdfFile.present /\ pdfFile'.present) =>
    \A k \in 1..Len(pdfFile.pages), j \in 1..Len(pdfFile'.pages) :
      (/\ pdfFile.pages[k].pageNumber = pdfFile'.pages[j].pageNumber
       /\ pdfFile.pages[k].isDeleted
       /\ ~pdfFile'.pages[j].isDeleted)
        => /\ j = k
           /\ pdfFile'.pages = [pdfFile.pages EXCEPT ![k].isDeleted = FALSE]

\* What a save has written and downloaded is the pages not marked deleted of
\* the list it was started on, in list order, each once; and none runs on a
\* list with no such page.
SaveIsTheActivePages ==
  tool = "organize" =>
    /\ isProcessing =>
         /\ closure.activePages = SelectSeq(closure.pdfFile.pages, LAMBDA p : ~p.isDeleted)
         /\ Len(closure.activePages) > 0
         /\ call.newPdf = SubSeq(SavedPages(closure.pdfFile.pages), 1, Len(call.newPdf))
         /\ \A j, k \in 1..Len(call.newPdf) :
              j # k => call.newPdf[j].pageNumber # call.newPdf[k].pageNumber
         /\ call.step = "done" <=> downloads # <<>>
         /\ call.step = "done" => downloads = <<SavedPages(closure.pdfFile.pages)>>
    /\ ~isProcessing => downloads = <<>>
    /\ (/\ pdfFile.present
        /\ \A k \in 1..Len(pdfFile.pages) : pdfFile.pages[k].isDeleted) => ~isProcessing

----------------------------------------------------------------------------
(* Properties of the merge route *)

\* The pages of the first n files of a list, file after file, each file's
\* pages 1..numPages in order: <<file position, page number>>.
RECURSIVE Concatenation(_, _)
Concatenation(list, n) ==
  IF n = 0
    THEN <<>>
    ELSE Concatenation(list, n - 1)
           \o [p \in 1..list[n].file.numPages |-> <<n, p>>]

MergeError == "An error occurred while merging PDFs. Please try again."

\* What a running merge has put together is the pages of the files it has
\* passed, in list and page order; a download is the one document of all the
\* files of the list the merge was started on, every one of them loaded.
MergeIsTheConcatenation ==
  (tool = "merge" /\ pc \in {"loop", "finally"}) =>
    /\ pc = "loop" => call.mergedPdf = Concatenation(closure.pdfFiles, i - 1)
    /\ downloads # <<>> =>
         /\ pc = "finally"
         /\ downloads = <<Concatenation(closure.pdfFiles, Len(closure.pdfFiles))>>
         /\ \A k \in 1..Len(closure.pdfFiles) : closure.pdfFiles[k].file.valid

\* A step of the merge that fails (its alert comes up) downloads nothing and
\* leaves the file list as it is; the step that downloads empties the list.
MergeOutcome ==
  tool = "merge" =>
    /\ (alertMsg = "none" /\ alertMsg' = MergeError) =>
         /\ downloads' = <<>>
         /\ pdfFiles' = pdfFiles
    /\ (downloads = <<>> /\ downloads' # <<>>) => pdfFiles' = <<>>
    /\ (pc = "loop" /\ pc' = "finally" /\ alertMsg' = "none") => downloads' # <<>>

\* C21: merge gives one document, the pages of every listed file, files
\* in list order and pages in their order; when a file does not load or the
\* save fails nothing is downloaded and the file list stays as it is; on
\* success the file list is emptied.
C21_MergeIsTheConcatenation ==
  /\ []MergeIsTheConcatenation
  /\ [][MergeOutcome]_vars

\* A two-page file listed before a one-page file has been merged.
C21_Witness ==
  /\ tool = "merge" /\ pc = "finally"
  /\ Len(closure.pdfFiles) = 2
  /\ closure.pdfFiles[1].file.numPages = 2
  /\ closure.pdfFiles[2].file.numPages = 1
  /\ downloads = <<<< <<1, 1>>, <<1, 2>>, <<2, 1>> >>>>
  /\ pdfFiles = <<>>

----------------------------------------------------------------------------
(* Properties of the split route's outputs *)

\* The pages start..end of a range that a document of pageCount pages has,
\* in ascending order, as the 0-based indexes an output holds.
PagesOfRange(range, pageCount) ==
  LET lo == IF range.start >= 1 THEN range.start ELSE 1
      hi == IF range.end <= pageCount THEN range.end ELSE pageCount
  IN  [j \in 1..(IF hi >= lo THEN hi - lo + 1 ELSE 0) |-> lo + j - 2]

\* How many outputs the running split is to give.
OutputsDue ==
  IF closure.splitMode = "all" THEN closure.pdfFile.pageCount
  ELSE IF closure.splitMode = "pages" THEN Cardinality(Range(closure.selectedPages))
  ELSE Len(closure.pageRanges)

\* C22: split gives, in 'all' mode, one single-page output per page
\* 1..pageCount in ascending order; in 'pages' mode one single-page output per
\* selected page in ascending page order, whatever the order the pages were
\* selected in; in 'ranges' mode one output per range in list order, holding
\* the pages start..end (those the document has) in ascending order.  The
\* outputs so far are always the first of these, and a split that reports
\* success has given all of them.
C22_SplitOutputs ==
  (tool = "split" /\ pc \in {"loop", "finally"}) =>
    /\ Len(downloads) <= OutputsDue
    /\ alertMsg = "Successfully split" => Len(downloads) = OutputsDue
    /\ closure.splitMode = "all" =>
         \A k \in 1..Len(downloads) : downloads[k] = <<k - 1>>
    /\ closure.splitMode = "pages" =>
         /\ \A k \in 1..Len(downloads) :
              /\ Len(downloads[k]) = 1
              /\ downloads[k][1] + 1 \in Range(closure.selectedPages)
         /\ \A j, k \in 1..Len(downloads) : j < k => downloads[j][1] < downloads[k][1]
    /\ closure.splitMode = "ranges" =>
         \A k \in 1..Len(downloads) :
           /\ downloads[k] = PagesOfRange(closure.pageRanges[k], closure.pdfFile.pageCount)
           /\ ValidRange(closure.pageRanges[k], closure.pdfFile.pageCount) =>
                downloads[k] = [j \in 1..(closure.pageRanges[k].end
                                            - closure.pageRanges[k].start + 1)
                                  |-> closure.pageRanges[k].start + j - 2]

\* Page 2 was selected before page 1, and the split gave page 1, then page 2.
C22_Witness ==
  /\ tool = "split" /\ pc = "finally" /\ alertMsg = "Successfully split"
  /\ closure.splitMode = "pages"
  /\ closure.selectedPages = <<2, 1>>
  /\ downloads = << <<0>>, <<1>> >>

----------------------------------------------------------------------------
(* Properties of the rotate buttons *)

QuarterTurns == {0, 90, 180, 270}

\* The rotations of the rotate route's files, and of the organizer's pages.
FileRotations == [k \in 1..Len(pdfFiles) |-> pdfFiles[k].rotation]

PageRotations ==
  IF pdfFile.present
    THEN [k \in 1..Len(pdfFile.pages) |-> pdfFile.pages[k].rotation]
    ELSE <<>>

\* From rotation r, four turns the same way come back to r, and a turn one
\* way followed by a turn the other way is r again: for a file...
FileTurnsCancel(r) ==
  /\ \A d \in RotateDirection :
       NewRotation(NewRotation(NewRotation(NewRotation(r, d), d), d), d) = r
  /\ NewRotation(NewRotation(r, "clockwise"), "counterclockwise") = r
  /\ NewRotation(NewRotation(r, "counterclockwise"), "clockwise") = r
  /\ NewRotation(r, "clockwise") # r

\* ... and for a page.
PageTurnsCancel(r) ==
  /\ \A d \in {"cw", "ccw"} :
       RotatePageBy(RotatePageBy(RotatePageBy(RotatePageBy(r, d), d), d), d) = r
  /\ RotatePageBy(RotatePageBy(r, "cw"), "ccw") = r
  /\ RotatePageBy(RotatePageBy(r, "ccw"), "cw") = r
  /\ RotatePageBy(r, "cw") # r

RotationsAreQuarterTurns ==
  /\ tool = "rotate" =>
       \A k \in 1..Len(pdfFiles) :
         /\ pdfFiles[k].rotation \in QuarterTurns
         /\ FileTurnsCancel(pdfFiles[k].rotation)
  /\ tool = "organize" =>
       \A k \in 1..Len(PageRotations) :
         /\ PageRotations[k] \in QuarterTurns
         /\ PageTurnsCancel(PageRotations[k])

\* The positions of a list of rotations that a step changed.
Turned(before, after) == {k \in 1..Len(before) : after[k] # before[k]}

\* A step that keeps the list changes the rotation of one file or page and
\* of no other; in the rotate route it may instead be a turn of every file
\* the same way, or the reset of every file.
OneAtATime ==
  /\ (tool = "rotate" /\ Len(pdfFiles') = Len(pdfFiles)) =>
       \/ Cardinality(Turned(FileRotations, FileRotations')) <= 1
       \/ \E d \in RotateDirection :
            \A k \in 1..Len(pdfFiles) :
              pdfFiles'[k].rotation = (pdfFiles[k].rotation
                                         + (IF d = "clockwise" THEN 90 ELSE 270)) % 360
       \/ \A k \in 1..Len(pdfFiles) : pdfFiles'[k].rotation = 0
  /\ (tool = "organize" /\ Len(PageRotations') = Len(PageRotations)) =>
       Cardinality(Turned(PageRotations, PageRotations')) <= 1

\* C23: whatever rotate and reset buttons were used, the rotation of
\* every file of the rotate route and of every page of the organizer is one
\* of 0, 90, 180, 270; four turns the same way give the value back, a turn
\* followed by the opposite turn is the identity; and turning or resetting
\* one file or page leaves the rotation of every other as it was.
C23_RotationAlgebra ==
  /\ []RotationsAreQuarterTurns
  /\ [][OneAtATime]_vars

\* Of three pages of the organizer the first was turned counter-clockwise
\* and the last clockwise.
C23_Witness ==
  /\ tool = "organize"
  /\ PageRotations = <<270, 0, 90>>

----------------------------------------------------------------------------
(* Properties of moveFile *)

\* How often a file is in a list.
Count(list, f) == Cardinality({k \in 1..Len(list) : list[k] = f})

SameFiles(a, b) ==
  /\ Len(a) = Len(b)
  /\ \A f \in Range(a) \cup Range(b) : Count(a, f) = Count(b, f)

\* On the list as it is, moveFile(index, direction) gives the list with the
\* file at index and its neighbour in that direction exchanged and every
\* other place as it was, or the list itself when there is no such neighbour.
MoveFileSwapsNeighbours ==
  tool = "merge" =>
    \A index \in 0..(Len(pdfFiles) - 1), direction \in {"up", "down"} :
      LET moved == MoveFileResult(pdfFiles, index, direction)
          here == index + 1
          there == IF direction = "up" THEN here - 1 ELSE here + 1
      IN  /\ SameFiles(moved, pdfFiles)
          /\ IF there < 1 \/ there > Len(pdfFiles)
               THEN moved = pdfFiles
               ELSE /\ moved[here] = pdfFiles[there]
                    /\ moved[there] = pdfFiles[here]
                    /\ \A k \in 1..Len(pdfFiles) :
                         k \notin {here, there} => moved[k] = pdfFiles[k]

\* A step that keeps the length of the list keeps its files.
MovesPermute ==
  (tool = "merge" /\ Len(pdfFiles') = Len(pdfFiles)) => SameFiles(pdfFiles', pdfFiles)

----------------------------------------------------------------------------
(* Properties of the organizer's drag and drop *)

\* A list without its k-th entry.
Without(list, k) == SubSeq(list, 1, k - 1) \o SubSeq(list, k + 1, Len(list))

\* The place of the page with a pageNumber in a list that has it.
PlaceOf(pages, pageNumber) == CHOOSE k \in 1..Len(pages) : pages[k].pageNumber = pageNumber

\* On the list as it is, the drop of the page at place d on the page at
\* another place t gives a list with the dragged page at place t, and with
\* the other pages in the order they had.
DropMovesToTarget ==
  (tool = "organize" /\ pdfFile.present) =>
    \A d, t \in 1..Len(pdfFile.pages) :
      d # t =>
        LET dropped == DropPage(pdfFile.pages, d, t)
        IN  /\ Len(dropped) = Len(pdfFile.pages)
            /\ dropped[t] = pdfFile.pages[d]
            /\ Without(dropped, t) = Without(pdfFile.pages, d)

\* A step on the list of a loaded document: when it changes the order of
\* the pages, a page was being dragged, it is now at the place of a page of
\* the grid other than itself, the other pages kept their order, and the
\* drag state is cleared; a step that ends a drag, or is a drop without one,
\* clears both ids; and without a dragged page no step changes the order.
DropStep ==
  (/\ tool = "organize" /\ pdfFile.present /\ pdfFile'.present
   /\ Len(pdfFile'.pages) = Len(pdfFile.pages)) =>
    /\ (\E k \in 1..Len(pdfFile.pages) :
          pdfFile'.pages[k].pageNumber # pdfFile.pages[k].pageNumber) =>
         /\ draggedPageId # NoPage
         /\ \E k \in 1..Len(pdfFile.pages) : pdfFile.pages[k].pageNumber = draggedPageId
         /\ LET d == PlaceOf(pdfFile.pages, draggedPageId)
                t == PlaceOf(pdfFile'.pages, draggedPageId)
            IN  /\ t # d
                /\ ~pdfFile.pages[t].isDeleted
                /\ pdfFile'.pages[t] = pdfFile.pages[d]
                /\ Without(pdfFile'.pages, t) = Without(pdfFile.pages, d)
         /\ draggedPageId' = NoPage
         /\ dragOverPageId' = NoPage
    /\ (draggedPageId # NoPage /\ draggedPageId' = NoPage) => dragOverPageId' = NoPage
    /\ (dragOverPageId # NoPage /\ dragOverPageId' = NoPage) => draggedPageId' = NoPage
    /\ draggedPageId = NoPage =>
         \A k \in 1..Len(pdfFile.pages) :
           pdfFile'.pages[k].pageNumber = pdfFile.pages[k].pageNumber

\* C25: the drop of dragged page d on another page t puts d at the place
\* t had and keeps the pages and the order of all the others; a drop of a
\* page on itself, or with no page dragged, leaves the list as it is; and
\* after every drop draggedPageId and dragOverPageId are cleared.
C25_DropMovesPage ==
  /\ []DropMovesToTarget
  /\ [][DropStep]_vars

\* Page 1 of three was dropped on page 3: the order is 2, 3, 1 and the drag
\* state is cleared.
C25_Witness ==
  /\ tool = "organize" /\ pdfFile.present
  /\ Len(pdfFile.pages) = 3
  /\ pdfFile.pages[1].pageNumber = 2
  /\ pdfFile.pages[2].pageNumber = 3
  /\ pdfFile.pages[3].pageNumber = 1
  /\ draggedPageId = NoPage /\ dragOverPageId = NoPage

----------------------------------------------------------------------------
(* Termination of the handlers *)

\* C26: in the compress, merge, split and OCR routes a handler that has
\* set isProcessing sets it back to false in the end, whether it succeeds,
\* fails for some documents, returns early or throws; and isProcessing is
\* never true once the handler is over.
C26_ProcessingEnds ==
  /\ [](pc = "idle" => ~isProcessing)
  /\ isProcessing ~> ~isProcessing

\* An extraction of the OCR route that failed is over, isProcessing false.
C26_Witness ==
  /\ tool = "ocr" /\ pc = "idle" /\ ~isProcessing
  /\ file.present
  /\ error = "Failed to extract text from PDF"

----------------------------------------------------------------------------
(* A document none of whose pages can be processed *)

\* Every page of the document threw in its try block.
AllPagesFailed(c) ==
  /\ c.pdfFile.valid
  /\ c.totalPages >= 1
  /\ FailedPages(c) = 1..c.totalPages

\* The output and the reports of a document whose pages all failed.
EmptyOutput ==
  (tool \in {"driver", "compress"} /\ PagesDone(call) /\ AllPagesFailed(call)) =>
    /\ call.newPdfDoc = <<>>
    /\ call.progress = <<>>

\* A page that throws leaves the call in its loop or at its save; the call
\* rejects from the load or from the save only; and the compress route,
\* on the resolution of a document whose pages all failed, marks it
\* 'completed' and downloads it.
PageFailuresAreSwallowed ==
  /\ (call.pc = "page" /\ call'.errors # call.errors) =>
       call'.pc \in {"page", "save"}
  /\ (call.pc # "rejected" /\ call'.pc = "rejected") =>
       call.pc \in {"load", "save"}
  /\ (tool = "compress" /\ call.pc = "resolved" /\ AllPagesFailed(call)
        /\ call' # call) =>
       /\ pdfFiles' = SetStatus(pdfFiles, i, "completed")
       /\ downloads' = Append(downloads, i)

\* C27: compressPDF never rejects because of page-level failures: when all
\* N pages of a loadable document fail, the call goes on to its save with
\* a zero-page output and zero progress callbacks, and once it resolves the
\* compress route marks the document 'completed' and downloads it.
C27_AllPagesFailedStillCompletes ==
  []EmptyOutput /\ [][PageFailuresAreSwallowed]_vars

\* A two-page document is 'completed' and downloaded without a single
\* progress report: both of its pages failed.
C27_Witness ==
  /\ tool = "compress" /\ pc = "loop"
  /\ pdfFiles[1].file.valid /\ pdfFiles[1].file.numPages = 2
  /\ pdfFiles[1].status = "completed"
  /\ pdfFiles[1].progress = NoProgress
  /\ downloads = <<1>>

====
